---- MODULE Spec2Model ----
(***************************************************************************)
(* Authorization core of ProjectBrain: the role graph and permission       *)
(* resolver (lib/auth.ts), the RoleGuard component that renders by role,   *)
(* the API guard withAuth with its audit logger                            *)
(* and in-memory rate limiter (lib/apiAuth.ts), the server actions         *)
(* registerUser and updateUserRole (lib/actions), the two page middlewares *)
(* with their route tables, and the login columns of public.users with the *)
(* trigger that resets them (the migration).                               *)
(***************************************************************************)
EXTENDS Integers, Sequences, FiniteSets, TLC

(***************************************************************************)
(* Static configuration: roles, permissions, hierarchy (lib/auth.ts).      *)
(***************************************************************************)
Roles == {"admin", "director", "team", "client", "builder"}

Permissions ==
  {"manage:users", "view:users", "manage:projects", "view:projects",
   "manage:content", "submit:content", "view:analytics", "manage:settings",
   "manage:roles"}

\* ROLE_HIERARCHY[r] is the list of roles r inherits from, in source order.
ROLE_HIERARCHY ==
  [r \in Roles |->
     CASE r = "admin"    -> << >>
       [] r = "director" -> <<"admin">>
       [] r = "team"     -> <<"director", "admin">>
       [] r = "client"   -> << >>
       [] r = "builder"  -> <<"client">>]

\* ROLE_PERMISSIONS[r] is the list of permissions granted to r directly.
ROLE_PERMISSIONS ==
  [r \in Roles |->
     CASE r = "admin" ->
            <<"manage:users", "view:users", "manage:projects", "view:projects",
              "manage:content", "submit:content", "view:analytics",
              "manage:settings", "manage:roles">>
       [] r = "director" ->
            <<"view:users", "manage:projects", "view:projects",
              "manage:content", "submit:content", "view:analytics">>
       [] r = "team" ->
            <<"view:projects", "manage:content", "submit:content",
              "view:analytics">>
       [] r = "client"  -> <<"view:projects", "submit:content">>
       [] r = "builder" -> <<"view:projects">>]

\* Array.prototype.includes
includes(list, x) == \E i \in 1..Len(list) : list[i] = x

\* The value of an absent role (undefined, null or the empty text), falsy in
\* the source.
NoRole == "undefined"

(***************************************************************************)
(* getInheritedRoles: depth-first traversal with a visited set; every     *)
(* parent is pushed onto the result before the recursive call.            *)
(***************************************************************************)
RECURSIVE traverse(_, _, _), traverseParents(_, _, _, _)
traverse(H, currentRole, st) ==
  IF currentRole \in st.visited
    THEN st
    ELSE traverseParents(H, H[currentRole], 1,
                         [st EXCEPT !.visited = @ \cup {currentRole}])

traverseParents(H, parentRoles, i, st) ==
  IF i > Len(parentRoles)
    THEN st
    ELSE traverseParents(H, parentRoles, i + 1,
           traverse(H, parentRoles[i],
                    [st EXCEPT !.result = Append(@, parentRoles[i])]))

\* A traversal that stops at the parents of the role.
getInheritedRolesDirect(H, role) == H[role]

getInheritedRolesIn(H, role) ==
  traverse(H, role, [result |-> << >>, visited |-> {}]).result

getInheritedRoles(role) == getInheritedRolesIn(ROLE_HIERARCHY, role)

\* A hierarchy in which the inheritance edges point the other way.
hasRoleReversed(userRole, requiredRole) ==
  IF userRole = NoRole THEN FALSE
  ELSE IF userRole = requiredRole THEN TRUE
  ELSE includes(getInheritedRoles(requiredRole), userRole)

\* A check that omits the direct role match.
hasRoleWithoutDirectMatch(H, userRole, requiredRole) ==
  IF userRole = NoRole THEN FALSE
  ELSE includes(getInheritedRolesIn(H, userRole), requiredRole)

\* A check that looks at the parents of the role and no further.
hasRoleDirectParents(H, userRole, requiredRole) ==
  IF userRole = NoRole THEN FALSE
  ELSE IF userRole = requiredRole THEN TRUE
  ELSE includes(H[userRole], requiredRole)

\* hasRole with the hierarchy as a parameter.
hasRoleIn(H, userRole, requiredRole) ==
  IF userRole = NoRole THEN FALSE
  ELSE IF userRole = requiredRole THEN TRUE
  ELSE includes(getInheritedRolesIn(H, userRole), requiredRole)

hasRole(userRole, requiredRole) ==
  hasRoleIn(ROLE_HIERARCHY, userRole, requiredRole)

\* hasPermission with the hierarchy as a parameter.
hasPermissionIn(H, userRole, permission) ==
  IF userRole = NoRole THEN FALSE
  ELSE IF includes(ROLE_PERMISSIONS[userRole], permission) THEN TRUE
  ELSE \E i \in 1..Len(getInheritedRolesIn(H, userRole)) :
         includes(ROLE_PERMISSIONS[getInheritedRolesIn(H, userRole)[i]],
                  permission)

hasPermission(userRole, permission) ==
  hasPermissionIn(ROLE_HIERARCHY, userRole, permission)

(***************************************************************************)
(* RoleGuard (components/auth/RoleGuard.tsx) once the role has loaded:     *)
(* what it renders for a user role.  AdminOnly and DirectorOnly pass only  *)
(* requiredRole.                                                           *)
(***************************************************************************)
RoleGuard(requiredRole, userRole) ==
  IF userRole = NoRole THEN "fallback"
  ELSE IF requiredRole # NoRole /\ ~hasRole(userRole, requiredRole)
    THEN "fallback"
  ELSE "children"

AdminOnly(userRole) == RoleGuard("admin", userRole)

DirectorOnly(userRole) == RoleGuard("director", userRole)

(***************************************************************************)
(* Bounds of the model.                                                    *)
(***************************************************************************)
\* Number of times the clock is seen to have advanced in a behaviour.
MaxTicks == 2
\* Number of withAuth invocations in flight at once (SpecConc).
MaxConcurrent == 2
\* Calls of isRateLimited past the threshold that a behaviour follows.
MaxOver == 2

(***************************************************************************)
(* Program constants (lib/apiAuth.ts).                                     *)
(***************************************************************************)
MAX_REQUESTS_PER_MINUTE == 60
RATE_LIMIT_WINDOW_MS == 60000

UserIds == {"u1", "u2"}
NoUser == "null"
\* SQL NULL; a nullable timestamp column holds NULL or <<t>>.
NULL == << >>
\* A key that has no entry in requestCounts (an entry has count >= 1).
NoBucket == [count |-> 0, resetTime |-> 0]

\* const userKey = userId || 'anonymous'
userKey(userId) == IF userId = "" THEN "anonymous" ELSE userId

Keys == UserIds \cup {"anonymous"}

VARIABLES
  now,            \* the latest value read from Date.now()
  ticks,          \* number of readings that found the clock advanced
  requestCounts,  \* apiAuth.ts: requestCounts, key -> bucket
  win,            \* history: per key, calls and allowed calls in its window
  lastCall,       \* history: the latest isRateLimited call
  users,          \* rows of public.users
  config,         \* per route handler, the RouteConfig given to withAuth
  req,            \* per route handler, the invocation in flight
  lastUpdate,     \* history: the latest updateUserRole call
  lastRegister,   \* history: the latest registerUser call
  page,           \* the latest page request and the middleware's response
  login,          \* the login columns of one row of public.users
  calc,           \* the latest application of a pure function
  lastToggle      \* history: the latest toggleUserActive call

vars == <<now, ticks, requestCounts, win, lastCall, users, config, req,
          lastUpdate, lastRegister, page, login, calc, lastToggle>>

\* The state of the server actions, the page middleware, the login columns
\* and the resolver, which the API guard leaves alone.
otherVars == <<lastRegister, page, login, calc, lastToggle>>

(***************************************************************************)
(* isRateLimited (apiAuth.ts 52-70): the buckets after the call and the    *)
(* value returned.                                                         *)
(***************************************************************************)
\* A limiter that denies from the threshold itself (>= instead of >).
isRateLimitedOffByOne(counts, userId, t) ==
  LET k == userKey(userId) IN
  IF counts[k] = NoBucket \/ counts[k].resetTime < t
    THEN [counts |-> [counts EXCEPT ![k] =
                        [count |-> 1, resetTime |-> t + RATE_LIMIT_WINDOW_MS]],
          result |-> FALSE]
    ELSE [counts |-> [counts EXCEPT ![k].count = @ + 1],
          result |-> counts[k].count + 1 >= MAX_REQUESTS_PER_MINUTE]

\* A limiter that stops counting once it denies, and so allows every other
\* call past the threshold.
isRateLimitedNoCountOnDeny(counts, userId, t) ==
  LET k == userKey(userId) IN
  IF counts[k] = NoBucket \/ counts[k].resetTime < t
    THEN [counts |-> [counts EXCEPT ![k] =
                        [count |-> 1, resetTime |-> t + RATE_LIMIT_WINDOW_MS]],
          result |-> FALSE]
    ELSE IF counts[k].count + 1 > MAX_REQUESTS_PER_MINUTE
      THEN [counts |-> [counts EXCEPT ![k].count = @ - 1], result |-> TRUE]
      ELSE [counts |-> [counts EXCEPT ![k].count = @ + 1], result |-> FALSE]

\* A limiter that loses every other increment (a read-modify-write that is
\* not atomic: the second writer stores the count the first one read).
isRateLimitedLostUpdate(counts, userId, t) ==
  LET k == userKey(userId) IN
  IF counts[k] = NoBucket \/ counts[k].resetTime < t
    THEN [counts |-> [counts EXCEPT ![k] =
                        [count |-> 1, resetTime |-> t + RATE_LIMIT_WINDOW_MS]],
          result |-> FALSE]
    ELSE IF counts[k].count % 2 = 0
      THEN [counts |-> counts, result |-> FALSE]
      ELSE [counts |-> [counts EXCEPT ![k].count = @ + 1],
            result |-> counts[k].count + 1 > MAX_REQUESTS_PER_MINUTE]

\* A limiter whose every call moves the end of the window (a sliding
\* expiry).
isRateLimitedExtendsWindow(counts, userId, t) ==
  LET k == userKey(userId) IN
  IF counts[k] = NoBucket \/ counts[k].resetTime < t
    THEN [counts |-> [counts EXCEPT ![k] =
                        [count |-> 1, resetTime |-> t + RATE_LIMIT_WINDOW_MS]],
          result |-> FALSE]
    ELSE [counts |-> [counts EXCEPT ![k] =
                        [count |-> @.count + 1,
                         resetTime |-> t + RATE_LIMIT_WINDOW_MS]],
          result |-> counts[k].count + 1 > MAX_REQUESTS_PER_MINUTE]

isRateLimited(counts, userId, t) ==
  LET k == userKey(userId) IN
  IF counts[k] = NoBucket \/ counts[k].resetTime < t
    THEN [counts |-> [counts EXCEPT ![k] =
                        [count |-> 1, resetTime |-> t + RATE_LIMIT_WINDOW_MS]],
          result |-> FALSE]
    ELSE [counts |-> [counts EXCEPT ![k].count = @ + 1],
          result |-> counts[k].count + 1 > MAX_REQUESTS_PER_MINUTE]


(***************************************************************************)
(* Route configurations: RouteConfig (apiAuth.ts 8-12).  An absent field   *)
(* is Undefined; a permission list may be present and empty.               *)
(***************************************************************************)
Undefined == <<"undefined">>

PermissionLists ==
  {<< >>, <<"manage:roles">>, <<"view:projects", "manage:roles">>}

RouteConfigs ==
  [requiredRole : Roles \cup {NoRole},
   requiredPermissions : PermissionLists \cup {Undefined},
   anyPermission : PermissionLists \cup {Undefined}]

EmptyConfig ==
  [requiredRole |-> NoRole, requiredPermissions |-> Undefined,
   anyPermission |-> Undefined]

\* withAdminAuth, withDirectorAuth (apiAuth.ts 218-227)
withAdminAuth == [EmptyConfig EXCEPT !.requiredRole = "admin"]
withDirectorAuth == [EmptyConfig EXCEPT !.requiredRole = "director"]

\* if (requiredRole || requiredPermissions || anyPermission): an array,
\* even an empty one, is truthy.
needsRoleLookup(cfg) ==
  \/ cfg.requiredRole # NoRole
  \/ cfg.requiredPermissions # Undefined
  \/ cfg.anyPermission # Undefined

\* requiredPermissions.every(p => hasPermission(userRole, p))
hasAllRequired(cfg, userRole) ==
  \A i \in 1..Len(cfg.requiredPermissions) :
    hasPermission(userRole, cfg.requiredPermissions[i])

\* anyPermission.some(p => hasPermission(userRole, p))
hasAnyRequired(cfg, userRole) ==
  \E i \in 1..Len(cfg.anyPermission) :
    hasPermission(userRole, cfg.anyPermission[i])

\* The role and permission checks of withAuth (apiAuth.ts 129-186) once the
\* role is known: the reason of the audit event that follows.
roleChecksSkippingRole(cfg, userRole) ==
  IF cfg.requiredPermissions # Undefined /\ Len(cfg.requiredPermissions) > 0
       /\ ~hasAllRequired(cfg, userRole)
    THEN "Missing required permissions"
  ELSE IF cfg.anyPermission # Undefined /\ Len(cfg.anyPermission) > 0
       /\ ~hasAnyRequired(cfg, userRole)
    THEN "No matching permissions"
  ELSE "success"

\* Checks in which one permission of requiredPermissions is enough.
roleChecksAllAsAny(cfg, userRole) ==
  IF cfg.requiredRole # NoRole /\ ~hasRole(userRole, cfg.requiredRole)
    THEN "Insufficient role"
  ELSE IF cfg.requiredPermissions # Undefined /\ Len(cfg.requiredPermissions) > 0
       /\ ~(\E n \in 1..Len(cfg.requiredPermissions) :
              hasPermission(userRole, cfg.requiredPermissions[n]))
    THEN "Missing required permissions"
  ELSE IF cfg.anyPermission # Undefined /\ Len(cfg.anyPermission) > 0
       /\ ~hasAnyRequired(cfg, userRole)
    THEN "No matching permissions"
  ELSE "success"

roleChecks(cfg, userRole) ==
  IF cfg.requiredRole # NoRole /\ ~hasRole(userRole, cfg.requiredRole)
    THEN "Insufficient role"
  ELSE IF cfg.requiredPermissions # Undefined /\ Len(cfg.requiredPermissions) > 0
       /\ ~hasAllRequired(cfg, userRole)
    THEN "Missing required permissions"
  ELSE IF cfg.anyPermission # Undefined /\ Len(cfg.anyPermission) > 0
       /\ ~hasAnyRequired(cfg, userRole)
    THEN "No matching permissions"
  ELSE "success"

\* The Retry-After header of the 429 response (line 106); the other
\* responses carry none.
retryAfterHeader(reason) == IF reason = "Rate limited" THEN "60" ELSE ""

\* The response withAuth returns after logging a denial with this reason.
denyStatus(reason) ==
  CASE reason = "No session" -> 401
    [] reason = "Rate limited" -> 429
    [] reason \in {"Role not found", "Insufficient role",
                   "Missing required permissions",
                   "No matching permissions"} -> 403
    [] OTHER -> 500

(***************************************************************************)
(* logApiAccess (apiAuth.ts 17-42): the insert into audit_logs succeeds,   *)
(* returns an error object, or throws; the try/catch swallows the throw.   *)
(***************************************************************************)
SinkOutcomes == {"ok", "error", "throws"}

\* The object handed to insert (lines 28-37), each value as NULL or <<v>>.
\* `reason` is undefined for a granted request and is then left out of the
\* request body, which the nullable column reads as NULL.  There is no
\* `action` key.
auditLogRow(path, method, userId, userRole, success, reason) ==
  [path |-> <<path>>, method |-> <<method>>,
   user_id |-> IF userId = NoUser THEN NULL ELSE <<userId>>,
   user_role |-> IF userRole = NoRole THEN NULL ELSE <<userRole>>,
   success |-> <<success>>,
   reason |-> IF reason = "" THEN NULL ELSE <<reason>>,
   timestamp |-> <<"toISOString">>,
   ip_address |-> <<"Captured in middleware">>]

\* The columns of public.audit_logs (migration 13-26) with their NOT NULL
\* constraint and whether they have a default.
audit_logs ==
  << [column |-> "id",             notNull |-> TRUE,  hasDefault |-> TRUE],
     [column |-> "timestamp",      notNull |-> TRUE,  hasDefault |-> TRUE],
     [column |-> "action",         notNull |-> TRUE,  hasDefault |-> FALSE],
     [column |-> "user_id",        notNull |-> FALSE, hasDefault |-> FALSE],
     [column |-> "target_user_id", notNull |-> FALSE, hasDefault |-> FALSE],
     [column |-> "path",           notNull |-> FALSE, hasDefault |-> FALSE],
     [column |-> "method",         notNull |-> FALSE, hasDefault |-> FALSE],
     [column |-> "user_role",      notNull |-> FALSE, hasDefault |-> FALSE],
     [column |-> "success",        notNull |-> FALSE, hasDefault |-> FALSE],
     [column |-> "reason",         notNull |-> FALSE, hasDefault |-> FALSE],
     [column |-> "details",        notNull |-> FALSE, hasDefault |-> FALSE],
     [column |-> "ip_address",     notNull |-> FALSE, hasDefault |-> FALSE] >>

\* INSERT of a row into a table with these columns: every key is a column,
\* and a NOT NULL column is given a value, or is left out and has a default.
insertAccepted(columns, row) ==
  /\ \A k \in DOMAIN row : \E n \in 1..Len(columns) : columns[n].column = k
  /\ \A n \in 1..Len(columns) :
       columns[n].notNull =>
         IF columns[n].column \in DOMAIN row
           THEN row[columns[n].column] # NULL
           ELSE columns[n].hasDefault

logApiAccessNoCatch(sink) == IF sink = "throws" THEN "thrown" ELSE "returned"

logApiAccess(sink) == "returned"


(***************************************************************************)
(* withAuth (apiAuth.ts 75-213).  One invocation is a process whose steps  *)
(* are the stretches of code between two awaits: the event loop runs each  *)
(* stretch to completion.                                                  *)
(***************************************************************************)
Slots == 1..MaxConcurrent

\* A slot that holds no route handler.
NoRoute ==
  [requiredRole |-> "none", requiredPermissions |-> Undefined,
   anyPermission |-> Undefined]

\* The identities that hold a session and send requests.
SessionUsers == {"u1"}

HandlerOutcomes == {"returns", "throws", "rejects"}
LookupOutcomes == {"ok", "error", "norow", "throws"}

IdleReq ==
  [pc |-> "idle", session |-> "", userId |-> NoUser, rlCalled |-> FALSE,
   limited |-> FALSE, locked |-> FALSE, lookup |-> "", userRole |-> NoRole,
   pending |-> "",
   audits |-> << >>, sinkThrew |-> FALSE, handlerCalls |-> 0,
   handler |-> "", status |-> "none", retryAfter |-> ""]

\* The claim-side notion of a window: a call is the first of a new window
\* when the key has no bucket or the bucket's window has elapsed.
FreshWindow(k, t) ==
  requestCounts[k] = NoBucket \/ t > requestCounts[k].resetTime

\* History of the rate limiter, kept beside each isRateLimited call.
RecordCall(k, t, res, after) ==
  LET fresh == FreshWindow(k, t)
      w == IF fresh
             THEN [calls |-> 1, allowed |-> IF res THEN 0 ELSE 1,
                   denied |-> res]
             ELSE [calls |-> win[k].calls + 1,
                   allowed |-> win[k].allowed + (IF res THEN 0 ELSE 1),
                   denied |-> win[k].denied \/ res]
  IN /\ win' = [win EXCEPT ![k] = w]
     /\ lastCall' = [key |-> k, at |-> t, fresh |-> fresh, nth |-> w.calls,
                     result |-> res,
                     deniedBefore |-> (~fresh /\ win[k].denied),
                     before |-> requestCounts[k], after |-> after[k]]

\* The request arrives; the code runs up to `await getSession()`.
Begin(i) ==
  /\ config[i] # NoRoute
  /\ req[i].pc = "idle"
  /\ req' = [req EXCEPT ![i].pc = "getSession"]
  /\ UNCHANGED <<now, ticks, requestCounts, win, lastCall, users, config,
                 lastUpdate>>
  /\ UNCHANGED otherVars

\* getSession threw: the catch block logs the error.
SessionThrows(i) ==
  /\ req[i].pc = "getSession"
  /\ req' = [req EXCEPT ![i].pc = "audit", ![i].session = "throws",
                        ![i].pending = "Error"]
  /\ UNCHANGED <<now, ticks, requestCounts, win, lastCall, users, config,
                 lastUpdate>>
  /\ UNCHANGED otherVars

\* getSession returned no session (lines 88-96).
NoSession(i) ==
  /\ req[i].pc = "getSession"
  /\ req' = [req EXCEPT ![i].pc = "audit", ![i].session = "none",
                        ![i].pending = "No session"]
  /\ UNCHANGED <<now, ticks, requestCounts, win, lastCall, users, config,
                 lastUpdate>>
  /\ UNCHANGED otherVars

\* Date.now() never runs backwards: a reading is the previous one, the end
\* of a window that began at the previous one, or the instant after that.
ClockReadings ==
  {now} \cup (IF ticks < MaxTicks
                THEN {now + RATE_LIMIT_WINDOW_MS, now + RATE_LIMIT_WINDOW_MS + 1}
                ELSE {})

\* A guard that turns to the role lookup before the rate-limit result.
afterSessionRoleFirst(cfg, limited) ==
  IF needsRoleLookup(cfg) THEN [pc |-> "roleLookup", pending |-> ""]
  ELSE IF limited THEN [pc |-> "audit", pending |-> "Rate limited"]
  ELSE [pc |-> "audit", pending |-> "success"]

\* Lines 100-111 and 187-190: what follows the rate-limit check: the 429
\* branch, the role lookup, or the success log of a route without
\* requirements.
afterSession(cfg, limited) ==
  IF limited THEN [pc |-> "audit", pending |-> "Rate limited"]
  ELSE IF needsRoleLookup(cfg) THEN [pc |-> "roleLookup", pending |-> ""]
  ELSE [pc |-> "audit", pending |-> "success"]

\* getSession returned a session: the rate-limit check runs at once, then
\* the code awaits the audit log or the role lookup (lines 98-116, 187-190).
SessionFound(i) ==
  /\ req[i].pc = "getSession"
  /\ \E u \in SessionUsers, t \in ClockReadings :
       LET k == userKey(u)
           rl == isRateLimited(requestCounts, u, t)
       IN /\ \/ FreshWindow(k, t)
             \/ requestCounts[k].count < MAX_REQUESTS_PER_MINUTE + MaxOver
          /\ now' = t
          /\ ticks' = IF t > now THEN ticks + 1 ELSE ticks
          /\ requestCounts' = rl.counts
          /\ RecordCall(k, t, rl.result, rl.counts)
          /\ req' = [req EXCEPT
               ![i].session = u, ![i].userId = u, ![i].rlCalled = TRUE,
               ![i].limited = rl.result,
               ![i].locked = (users[u].locked_until # NULL
                              /\ users[u].locked_until[1] > t),
               ![i].pc = afterSession(config[i], rl.result).pc,
               ![i].pending = afterSession(config[i], rl.result).pending]
  /\ UNCHANGED <<users, config, lastUpdate>>
  /\ UNCHANGED otherVars

\* The users query resolved (lines 112-186): role not found, or the role and
\* permission checks; a query that throws lands in the catch block.
RoleResolved(i) ==
  /\ req[i].pc = "roleLookup"
  /\ \E o \in LookupOutcomes :
       LET role == IF o = "ok" THEN users[req[i].userId].role ELSE NoRole
           reason == IF o = "throws" THEN "Error"
                     ELSE IF o # "ok" \/ role = NoRole THEN "Role not found"
                     ELSE roleChecks(config[i], role)
       IN req' = [req EXCEPT ![i].pc = "audit", ![i].lookup = o,
                             ![i].userRole = role, ![i].pending = reason]
  /\ UNCHANGED <<now, ticks, requestCounts, win, lastCall, users, config,
                 lastUpdate>>
  /\ UNCHANGED otherVars

\* `await logApiAccess(...)` completed, and the code after it ran: a denial
\* is returned, or the handler is called (line 193); what the handler throws
\* synchronously is caught (194-211), a rejected promise it returns is not.
AuditDone(i) ==
  /\ req[i].pc = "audit"
  /\ \E sink \in SinkOutcomes, h \in HandlerOutcomes :
       LET r == req[i]
           logged == [r EXCEPT !.audits = Append(@, r.pending),
                               !.sinkThrew = @ \/ sink = "throws"]
       IN
       IF logApiAccess(sink) = "thrown"
         THEN IF r.pending = "Error"
                THEN req' = [req EXCEPT ![i] =
                       [logged EXCEPT !.pc = "done", !.status = "rejected"]]
                ELSE req' = [req EXCEPT ![i] =
                       [logged EXCEPT !.pending = "Error"]]
       ELSE IF r.pending = "success"
         THEN req' = [req EXCEPT ![i] =
                [logged EXCEPT
                   !.handlerCalls = @ + 1, !.handler = h,
                   !.pc = IF h = "throws" THEN "audit" ELSE "done",
                   !.pending = IF h = "throws" THEN "Error" ELSE "",
                   !.status = CASE h = "returns" -> "200"
                                [] h = "rejects" -> "rejected"
                                [] OTHER -> "none"]]
       ELSE req' = [req EXCEPT ![i] =
              [logged EXCEPT !.pc = "done", !.pending = "",
                             !.status = ToString(denyStatus(r.pending)),
                             !.retryAfter = retryAfterHeader(r.pending)]]
  /\ UNCHANGED <<now, ticks, requestCounts, win, lastCall, users, config,
                 lastUpdate>>
  /\ UNCHANGED otherVars

\* The response has been sent; the route handler can serve the next request.
Finish(i) ==
  /\ req[i].pc = "done"
  /\ req' = [req EXCEPT ![i] = IdleReq]
  /\ UNCHANGED <<now, ticks, requestCounts, win, lastCall, users, config,
                 lastUpdate>>
  /\ UNCHANGED otherVars

(***************************************************************************)
(* Initial states.                                                         *)
(***************************************************************************)
\* A lock-expiry timestamp written by the authentication flow.
LockExpiry == RATE_LIMIT_WINDOW_MS

NoWindow == [calls |-> 0, allowed |-> 0, denied |-> FALSE]
NoCall ==
  [key |-> "", at |-> 0, fresh |-> FALSE, nth |-> 0, result |-> FALSE,
   deniedBefore |-> FALSE, before |-> NoBucket, after |-> NoBucket]
NoUpdate ==
  [caller |-> NoUser, callerRole |-> NoRole, target |-> NoUser,
   role |-> NoRole, oldRole |-> NoRole, result |-> "", applied |-> FALSE]

NoRegister ==
  [caller |-> NoUser, callerRole |-> NoRole, role |-> NoRole, result |-> "",
   signUps |-> 0, inserts |-> 0, created |-> NoRole]
NoPage == [mw |-> "", path |-> "", verdict |-> ""]
\* The login columns of a new row, and no update made yet.
NewLoginRow ==
  [failed_login_attempts |-> 0, locked_until |-> NULL, last_login |-> NULL]
NoLogin == [row |-> NewLoginRow, op |-> "", streak |-> 0]
NoCalc == [fn |-> ""]
\* No toggleUserActive call made yet, and nobody deactivated.
NoToggle ==
  [caller |-> "", target |-> "", active |-> TRUE, result |-> "",
   applied |-> FALSE, deactivated |-> {}]

OthersIdle ==
  /\ lastRegister = NoRegister
  /\ page = NoPage
  /\ login = NoLogin
  /\ calc = NoCalc
  /\ lastToggle = NoToggle

\* The role column is TEXT NOT NULL: any of the five roles, or an empty text.
UserRows ==
  [role : Roles \cup {NoRole}, locked_until : {NULL, <<LockExpiry>>},
   active : BOOLEAN]

\* A bucket that has taken every call the threshold allows, all at time 0.
FullBucket ==
  [count |-> MAX_REQUESTS_PER_MINUTE, resetTime |-> RATE_LIMIT_WINDOW_MS]
FullWindow ==
  [calls |-> MAX_REQUESTS_PER_MINUTE, allowed |-> MAX_REQUESTS_PER_MINUTE,
   denied |-> FALSE]

\* One route handler, of any configuration, serving one request at a time.
Init ==
  /\ now = 0 /\ ticks = 0
  /\ \E full \in BOOLEAN :
       /\ requestCounts = [k \in Keys |->
            IF full /\ k = "u1" THEN FullBucket ELSE NoBucket]
       /\ win = [k \in Keys |->
            IF full /\ k = "u1" THEN FullWindow ELSE NoWindow]
  /\ lastCall = NoCall
  /\ \E row \in UserRows :
       users = [u \in UserIds |->
         IF u = "u1" THEN row
         ELSE [role |-> "client", locked_until |-> NULL, active |-> TRUE]]
  /\ \E c \in RouteConfigs :
       config = [i \in Slots |-> IF i = 1 THEN c ELSE NoRoute]
  /\ req = [i \in Slots |-> IdleReq]
  /\ lastUpdate = NoUpdate
  /\ OthersIdle

Next ==
  \/ \E i \in Slots : Begin(i)
  \/ \E i \in Slots : SessionThrows(i)
  \/ \E i \in Slots : NoSession(i)
  \/ \E i \in Slots : SessionFound(i)
  \/ \E i \in Slots : RoleResolved(i)
  \/ \E i \in Slots : AuditDone(i)

Spec == Init /\ [][Next]_vars


DefaultUsers ==
  [u \in UserIds |->
     [role |-> IF u = "u1" THEN "admin" ELSE "client",
      locked_until |-> NULL, active |-> TRUE]]

\* One route with no requirement, serving request after request of one
\* identity, from an empty requestCounts.
InitWindow ==
  /\ now = 0 /\ ticks = 0
  /\ requestCounts = [k \in Keys |-> NoBucket]
  /\ win = [k \in Keys |-> NoWindow]
  /\ lastCall = NoCall
  /\ users = DefaultUsers
  /\ config = [i \in Slots |-> IF i = 1 THEN EmptyConfig ELSE NoRoute]
  /\ req = [i \in Slots |-> IdleReq]
  /\ lastUpdate = NoUpdate
  /\ OthersIdle

NextWindow ==
  \/ \E i \in Slots : Begin(i)
  \/ \E i \in Slots : SessionThrows(i)
  \/ \E i \in Slots : NoSession(i)
  \/ \E i \in Slots : SessionFound(i)
  \/ \E i \in Slots : AuditDone(i)
  \/ \E i \in Slots : Finish(i)

SpecWindow == InitWindow /\ [][NextWindow]_vars

\* A bucket one call short of the threshold, all calls made at time 0.
NearlyFullBucket ==
  [count |-> MAX_REQUESTS_PER_MINUTE - 1, resetTime |-> RATE_LIMIT_WINDOW_MS]
NearlyFullWindow ==
  [calls |-> MAX_REQUESTS_PER_MINUTE - 1,
   allowed |-> MAX_REQUESTS_PER_MINUTE - 1, denied |-> FALSE]

\* MaxConcurrent invocations of one route, one request each, interleaved at
\* their awaits; the identity's bucket is absent, nearly full or full.
InitConc ==
  /\ now = 0 /\ ticks = 0
  /\ \E b \in {<<NoBucket, NoWindow>>, <<NearlyFullBucket, NearlyFullWindow>>,
               <<FullBucket, FullWindow>>} :
       /\ requestCounts = [k \in Keys |-> IF k = "u1" THEN b[1] ELSE NoBucket]
       /\ win = [k \in Keys |-> IF k = "u1" THEN b[2] ELSE NoWindow]
  /\ lastCall = NoCall
  /\ users = DefaultUsers
  /\ config = [i \in Slots |-> EmptyConfig]
  /\ req = [i \in Slots |-> IdleReq]
  /\ lastUpdate = NoUpdate
  /\ OthersIdle

NextConc ==
  \/ \E i \in Slots : Begin(i)
  \/ \E i \in Slots : SessionThrows(i)
  \/ \E i \in Slots : NoSession(i)
  \/ \E i \in Slots : SessionFound(i)
  \/ \E i \in Slots : AuditDone(i)

SpecConc == InitConc /\ [][NextConc]_vars

(***************************************************************************)
(* Row-level security of public.users (the migration's policies).  The     *)
(* permissive policies of a command are OR-ed; a row that fails USING is   *)
(* skipped without an error, a new row that fails WITH CHECK is an error.  *)
(***************************************************************************)
\* users_read_own, admin_read_all_users, director_read_most_users
rlsSelectUsing(tbl, uid, row) ==
  \/ uid = row
  \/ tbl[uid].role = "admin"
  \/ (tbl[uid].role = "director" /\ tbl[row].role # "admin")

\* admin_update_any_user, director_update_some_users, users_update_own
rlsUpdateUsing(tbl, uid, row) ==
  \/ tbl[uid].role = "admin"
  \/ (tbl[uid].role = "director" /\ tbl[row].role \notin {"admin", "director"})
  \/ uid = row

\* The same policies on the new row; users_update_own has its own check.
rlsUpdateCheck(tbl, uid, row, newRole) ==
  \/ tbl[uid].role = "admin"
  \/ (tbl[uid].role = "director" /\ newRole \notin {"admin", "director"})
  \/ (uid = row /\ newRole = tbl[row].role)

\* supabase.from('users').update({ role }).eq('id', userId) as user uid: the
\* table afterwards and whether an error is returned.
updateRole(tbl, uid, userId, role) ==
  IF ~(rlsSelectUsing(tbl, uid, userId) /\ rlsUpdateUsing(tbl, uid, userId))
    THEN [users |-> tbl, error |-> FALSE]
  ELSE IF ~rlsUpdateCheck(tbl, uid, userId, role)
    THEN [users |-> tbl, error |-> TRUE]
  ELSE [users |-> [tbl EXCEPT ![userId].role = role], error |-> FALSE]

(***************************************************************************)
(* updateUserRole (lib/actions/user-actions.ts 124-192).                   *)
(***************************************************************************)
\* updateRoleSchema: a uuid and one of the five roles.
FormUserIds == UserIds \cup {"not-a-uuid"}
FormRoles == Roles \cup {"owner"}

\* The checks between the profile lookup and the update (lines 151-161): the
\* error returned, or "" when the update goes ahead.
roleUpdateGate(userRole, role) ==
  IF ~hasPermission(userRole, "manage:roles")
    THEN "You do not have permission to update user roles"
  ELSE IF userRole = "director" /\ role # "client" /\ role # "builder"
    THEN "Directors can only assign client or builder roles"
  ELSE ""

UpdateUserRole ==
  \E session \in UserIds \cup {NoUser}, userId \in FormUserIds,
     role \in FormRoles, profile \in {"ok", "none", "throws"},
     dbError \in BOOLEAN, auditThrows \in BOOLEAN :
    LET callerRole == IF session # NoUser /\ profile = "ok"
                        THEN users[session].role ELSE NoRole
        valid == userId \in UserIds /\ role \in Roles
        gate == IF valid /\ callerRole # NoRole
                  THEN roleUpdateGate(callerRole, role) ELSE "not reached"
        upd == IF gate = "" /\ ~dbError
                 THEN updateRole(users, session, userId, role)
                 ELSE [users |-> users, error |-> gate = ""]
        result ==
          IF ~valid THEN "Invalid form data"
          ELSE IF session = NoUser THEN "Authentication required"
          ELSE IF profile = "throws" THEN "An unexpected error occurred"
          ELSE IF profile = "none" THEN "User profile not found"
          ELSE IF gate # "" THEN gate
          ELSE IF upd.error THEN "update error"
          ELSE IF auditThrows THEN "An unexpected error occurred"
          ELSE "success"
    IN /\ users' = upd.users
       /\ lastUpdate' =
            [caller |-> session, callerRole |-> callerRole,
             target |-> IF valid THEN userId ELSE NoUser,
             role |-> IF valid THEN role ELSE NoRole,
             oldRole |-> IF valid THEN users[userId].role ELSE NoRole,
             result |-> result, applied |-> users' # users]
       /\ UNCHANGED <<now, ticks, requestCounts, win, lastCall, config, req>>
       /\ UNCHANGED otherVars

(***************************************************************************)
(* updateUserRole (lib/actions/role-management.ts 55-115): the second      *)
(* implementation, called with a user id and a role; it has no rule for    *)
(* directors.                                                              *)
(***************************************************************************)
\* The check between the role lookup and the update (lines 76-92).
roleManagementGate(userRole) ==
  IF ~hasPermission(userRole, "manage:roles")
    THEN "Insufficient permissions to manage roles"
  ELSE ""

RoleManagementUpdateUserRole ==
  \E session \in UserIds \cup {NoUser}, userId \in FormUserIds,
     newRole \in Roles, lookup \in {"ok", "error"}, dbError \in BOOLEAN :
    LET callerRole == IF session # NoUser /\ lookup = "ok"
                        THEN users[session].role ELSE NoRole
        gate == IF callerRole # NoRole
                  THEN roleManagementGate(callerRole) ELSE "not reached"
        upd == IF gate = "" /\ ~dbError /\ userId \in UserIds
                 THEN updateRole(users, session, userId, newRole)
                 ELSE [users |-> users, error |-> gate = ""]
        result ==
          IF session = NoUser THEN "Not authenticated"
          ELSE IF lookup # "ok" THEN "Failed to fetch user role"
          ELSE IF gate # "" THEN gate
          ELSE IF upd.error THEN "update error"
          ELSE "success"
    IN /\ users' = upd.users
       /\ lastUpdate' =
            [caller |-> session, callerRole |-> callerRole,
             target |-> IF userId \in UserIds THEN userId ELSE NoUser,
             role |-> newRole,
             oldRole |-> IF userId \in UserIds
                           THEN users[userId].role ELSE NoRole,
             result |-> result, applied |-> users' # users]
       /\ UNCHANGED <<now, ticks, requestCounts, win, lastCall, config, req>>
       /\ UNCHANGED otherVars

\* Two users of any roles; role updates are issued one after another.
InitRoles ==
  /\ now = 0 /\ ticks = 0
  /\ requestCounts = [k \in Keys |-> NoBucket]
  /\ win = [k \in Keys |-> NoWindow]
  /\ lastCall = NoCall
  /\ \E roles \in [UserIds -> Roles] :
       users = [u \in UserIds |->
         [role |-> roles[u], locked_until |-> NULL, active |-> TRUE]]
  /\ config = [i \in Slots |-> NoRoute]
  /\ req = [i \in Slots |-> IdleReq]
  /\ lastUpdate = NoUpdate
  /\ OthersIdle

NextRoles == UpdateUserRole

SpecRoles == InitRoles /\ [][NextRoles]_vars

\* Both implementations of updateUserRole, called in any order.
NextRoleManagement ==
  \/ UpdateUserRole
  \/ RoleManagementUpdateUserRole

SpecRoleManagement == InitRoles /\ [][NextRoleManagement]_vars

(***************************************************************************)
(* toggleUserActive (lib/actions/user-actions.ts 197-248).                 *)
(***************************************************************************)
\* supabase.from('users').update({ active }).eq('id', userId) as user uid:
\* the role of the row does not change, so the new row is checked with the
\* role it had.
updateActive(tbl, uid, userId, active) ==
  IF ~(rlsSelectUsing(tbl, uid, userId) /\ rlsUpdateUsing(tbl, uid, userId))
    THEN [users |-> tbl, error |-> FALSE]
  ELSE IF ~rlsUpdateCheck(tbl, uid, userId, tbl[userId].role)
    THEN [users |-> tbl, error |-> TRUE]
  ELSE [users |-> [tbl EXCEPT ![userId].active = active], error |-> FALSE]

\* Line 222: the error returned, or "" when the update goes ahead.
toggleGate(userRole) ==
  IF ~hasPermission(userRole, "manage:users")
    THEN "You do not have permission to manage user accounts"
  ELSE ""

\* lastToggle.deactivated holds the users whose latest successful call
\* passed active = false.
ToggleUserActive ==
  \E session \in UserIds \cup {NoUser}, userId \in UserIds,
     active \in BOOLEAN, profile \in {"ok", "none", "throws"},
     dbError \in BOOLEAN, auditThrows \in BOOLEAN :
    LET callerRole == IF session # NoUser /\ profile = "ok"
                        THEN users[session].role ELSE NoRole
        gate == IF callerRole # NoRole
                  THEN toggleGate(callerRole) ELSE "not reached"
        upd == IF gate = "" /\ ~dbError
                 THEN updateActive(users, session, userId, active)
                 ELSE [users |-> users, error |-> gate = ""]
        result ==
          IF session = NoUser THEN "Authentication required"
          ELSE IF profile = "throws" THEN "An unexpected error occurred"
          ELSE IF profile = "none" THEN "User profile not found"
          ELSE IF gate # "" THEN gate
          ELSE IF upd.error THEN "update error"
          ELSE IF auditThrows THEN "An unexpected error occurred"
          ELSE "success"
    IN /\ users' = upd.users
       /\ lastToggle' =
            [caller |-> session, target |-> userId, active |-> active,
             result |-> result, applied |-> users' # users,
             deactivated |->
               IF result # "success" THEN lastToggle.deactivated
               ELSE IF active THEN lastToggle.deactivated \ {userId}
               ELSE lastToggle.deactivated \cup {userId}]
       /\ UNCHANGED <<now, ticks, requestCounts, win, lastCall, config, req,
                      lastUpdate, lastRegister, page, login, calc>>

(***************************************************************************)
(* registerUser (lib/actions/user-actions.ts 33-119).                      *)
(***************************************************************************)
\* A gate that lets a director create an account of any role.
registerGateDirectorAnyRole(hasSession, userRole, role) ==
  IF hasSession
    THEN IF userRole = "admin" \/ userRole = "director"
           THEN [adminCreatedUser |-> TRUE, error |-> ""]
         ELSE IF role # "client"
           THEN [adminCreatedUser |-> FALSE,
                 error |-> "You do not have permission to create users with this role"]
         ELSE [adminCreatedUser |-> FALSE, error |-> ""]
  ELSE IF role # "client"
    THEN [adminCreatedUser |-> FALSE,
          error |-> "Anonymous registrations can only create client accounts"]
  ELSE [adminCreatedUser |-> FALSE, error |-> ""]

\* Lines 42-65: whether the caller may create an account of the role asked
\* for; userRole is userData?.role, NoRole when the lookup gave no row.
registerGate(hasSession, userRole, role) ==
  IF hasSession
    THEN IF userRole = "admin"
           THEN [adminCreatedUser |-> TRUE, error |-> ""]
         ELSE IF userRole = "director"
                 /\ (role = "client" \/ role = "builder")
           THEN [adminCreatedUser |-> TRUE, error |-> ""]
         ELSE IF role # "client"
           THEN [adminCreatedUser |-> FALSE,
                 error |-> "You do not have permission to create users with this role"]
         ELSE [adminCreatedUser |-> FALSE, error |-> ""]
  ELSE IF role # "client"
    THEN [adminCreatedUser |-> FALSE,
          error |-> "Anonymous registrations can only create client accounts"]
  ELSE [adminCreatedUser |-> FALSE, error |-> ""]

\* registerSchema: the role defaults to client; a bad email, password or
\* role makes parse throw a ZodError.
RegisterForms ==
  [valid : BOOLEAN, role : Roles \cup {NoRole}]

SignUpOutcomes == {"ok", "authError", "noUser", "throws"}

\* One call of registerUser.  The profile row it inserts has a new id; the
\* call's signUp and insert are recorded in lastRegister.
RegisterUser ==
  \E form \in RegisterForms, session \in UserIds \cup {NoUser, "throws"},
     profile \in {"ok", "none", "throws"}, signUp \in SignUpOutcomes,
     profileError \in BOOLEAN :
    LET role == IF form.role = NoRole THEN "client" ELSE form.role
        hasSession == session \in UserIds
        userRole == IF hasSession /\ profile = "ok"
                      THEN users[session].role ELSE NoRole
        threw == session = "throws" \/ (hasSession /\ profile = "throws")
        gate == registerGate(hasSession, userRole, role)
        reachedSignUp == form.valid /\ ~threw /\ gate.error = ""
        reachedInsert == reachedSignUp /\ signUp = "ok"
        result ==
          IF ~form.valid THEN "Invalid form data"
          ELSE IF threw THEN "An unexpected error occurred"
          ELSE IF gate.error # "" THEN gate.error
          ELSE IF signUp = "throws" THEN "An unexpected error occurred"
          ELSE IF signUp = "authError" THEN "authError"
          ELSE IF signUp = "noUser" THEN "Failed to create user"
          ELSE IF profileError THEN "profileError"
          ELSE "success"
    IN /\ lastRegister' =
            [caller |-> IF hasSession THEN session ELSE NoUser,
             callerRole |-> userRole,
             role |-> role,
             result |-> result,
             signUps |-> IF reachedSignUp THEN 1 ELSE 0,
             inserts |-> IF reachedInsert THEN 1 ELSE 0,
             created |-> IF reachedInsert /\ ~profileError
                           THEN role ELSE NoRole]
       /\ UNCHANGED <<now, ticks, requestCounts, win, lastCall, users, config,
                      req, lastUpdate, page, login, calc,
                 lastToggle>>

\* Users of any roles; registrations are made one after another.
NextRegister == RegisterUser

SpecRegister == InitRoles /\ [][NextRegister]_vars

(***************************************************************************)
(* String operations of the page middlewares.                              *)
(***************************************************************************)
\* String.prototype.startsWith, endsWith, includes
startsWith(str, prefix) ==
  Len(prefix) <= Len(str) /\ SubSeq(str, 1, Len(prefix)) = prefix

endsWith(str, suffix) ==
  Len(suffix) <= Len(str)
    /\ SubSeq(str, Len(str) - Len(suffix) + 1, Len(str)) = suffix

strIncludes(str, part) ==
  \E i \in 1..(Len(str) + 1) :
    i + Len(part) - 1 <= Len(str) /\ SubSeq(str, i, i + Len(part) - 1) = part

\* path === route || path.startsWith(`${route}/`)
underRoute(path, route) == path = route \/ startsWith(path, route \o "/")

(***************************************************************************)
(* The page middleware with publicRoutes, routePermissions and routeRoles  *)
(* (__tests__/example.test.tsx 15-183).                                    *)
(***************************************************************************)
publicRoutes ==
  <<"/", "/login", "/register", "/api/auth/callback", "/api/auth/logout",
    "/api/auth/reset-password", "/unauthorized">>

routePermissions ==
  << [route |-> "/dashboard",     permissions |-> <<"view:projects">>],
     [route |-> "/projects",      permissions |-> <<"view:projects">>],
     [route |-> "/projects/new",  permissions |-> <<"manage:projects">>],
     [route |-> "/projects/edit", permissions |-> <<"manage:projects">>],
     [route |-> "/users",         permissions |-> <<"view:users">>],
     [route |-> "/users/manage",  permissions |-> <<"manage:users">>],
     [route |-> "/settings",      permissions |-> <<"manage:settings">>],
     [route |-> "/analytics",     permissions |-> <<"view:analytics">>] >>

routeRoles ==
  << [route |-> "/admin",    roles |-> <<"admin">>],
     [route |-> "/director", roles |-> <<"admin", "director">>] >>

\* publicRoutes.some(route => path === route || path.startsWith(`${route}/`))
isPublicRoute(path) ==
  \E n \in 1..Len(publicRoutes) : underRoute(path, publicRoutes[n])

\* The answer of the check-permissions function for a role and a list of
\* permissions: every permission of the list, resolved with inheritance.
checkPermissions(userRole, requiredPermissions) ==
  /\ userRole # NoRole
  /\ Len(requiredPermissions) > 0
  /\ \A n \in 1..Len(requiredPermissions) :
       hasPermission(userRole, requiredPermissions[n])

\* Lines 85-108: some entry of routeRoles covers the path and does not list
\* the user's role.
roleDenied(path, userRole) ==
  \E n \in 1..Len(routeRoles) :
    /\ underRoute(path, routeRoles[n].route)
    /\ ~includes(routeRoles[n].roles, userRole)

\* A loop that stops at the first entry of routePermissions that covers the
\* path, whatever the call answers for it.
permissionDeniedFirstMatch(path, userRole, permissionError) ==
  \E n \in 1..Len(routePermissions) :
    /\ underRoute(path, routePermissions[n].route)
    /\ \A k \in 1..(n - 1) : ~underRoute(path, routePermissions[k].route)
    /\ (permissionError
          \/ ~checkPermissions(userRole, routePermissions[n].permissions))

\* Lines 110-139: some entry of routePermissions covers the path and the
\* check-permissions call fails or answers no.
permissionDenied(path, userRole, permissionError) ==
  \E n \in 1..Len(routePermissions) :
    /\ underRoute(path, routePermissions[n].route)
    /\ (permissionError
          \/ ~checkPermissions(userRole, routePermissions[n].permissions))

PageLookups == {"ok", "error", "norow"}

\* URLSearchParams: a value is written percent-encoded; of the characters of
\* a path of the model only "/" is encoded.
RECURSIVE formEncode(_)
formEncode(str) ==
  IF Len(str) = 0 THEN ""
  ELSE (IF SubSeq(str, 1, 1) = "/" THEN "%2F" ELSE SubSeq(str, 1, 1))
         \o formEncode(SubSeq(str, 2, Len(str)))

\* url.searchParams.set(name, value) on a URL without a query: the query.
setSearchParam(name, value) == name \o "=" \o formEncode(value)

\* A response: let the request proceed, redirect it, or refuse it; with the
\* query of the redirect URL, the number of log_auth_event calls and the
\* number of users queries made on the way.
Respond(verdict, location, param, audits, queries) ==
  [verdict |-> verdict, location |-> location, param |-> param,
   audits |-> audits, queries |-> queries]

\* A middleware that redirects to the login page without the path.
pageMiddlewareNoReturnPath(r, lookup, row, permissionError) ==
  IF isPublicRoute(r.path)
    THEN Respond("next", "", "", 0, 0)
  ELSE IF r.session = NoUser
    THEN Respond("redirect", "/login", "", 0, 0)
  ELSE IF lookup # "ok"
    THEN Respond("redirect", "/api/auth/logout", "", 0, 1)
  ELSE IF roleDenied(r.path, row.role)
    THEN Respond("redirect", "/unauthorized", "", 1, 1)
  ELSE IF permissionDenied(r.path, row.role, permissionError)
    THEN Respond("redirect", "/unauthorized", "", 1, 1)
  ELSE Respond("next", "", "", 0, 1)

\* A middleware that asks for the session before it looks at publicRoutes.
pageMiddlewareSessionFirst(r, lookup, row, permissionError) ==
  IF r.session = NoUser
    THEN Respond("redirect", "/login",
                 setSearchParam("redirectedFrom", r.path), 0, 0)
  ELSE IF isPublicRoute(r.path)
    THEN Respond("next", "", "", 0, 0)
  ELSE IF lookup # "ok"
    THEN Respond("redirect", "/api/auth/logout", "", 0, 1)
  ELSE IF roleDenied(r.path, row.role)
    THEN Respond("redirect", "/unauthorized", "", 1, 1)
  ELSE IF permissionDenied(r.path, row.role, permissionError)
    THEN Respond("redirect", "/unauthorized", "", 1, 1)
  ELSE Respond("next", "", "", 0, 1)

\* middleware(request) for a request, what getSession and the users query
\* answer, and whether the check-permissions call fails.
pageMiddleware(r, lookup, row, permissionError) ==
  IF isPublicRoute(r.path)
    THEN Respond("next", "", "", 0, 0)
  ELSE IF r.session = NoUser
    THEN Respond("redirect", "/login",
                 setSearchParam("redirectedFrom", r.path), 0, 0)
  ELSE IF lookup # "ok"
    THEN Respond("redirect", "/api/auth/logout", "", 0, 1)
  ELSE IF roleDenied(r.path, row.role)
    THEN Respond("redirect", "/unauthorized", "", 1, 1)
  ELSE IF permissionDenied(r.path, row.role, permissionError)
    THEN Respond("redirect", "/unauthorized", "", 1, 1)
  ELSE Respond("next", "", "", 0, 1)

(***************************************************************************)
(* The page middleware with ROUTE_PERMISSIONS and findRouteConfig          *)
(* (docs/CI-CD-GUIDE.md 83-281).                                           *)
(***************************************************************************)
PublicRule == [requiredRole |-> NoRole, isPublic |-> TRUE]
RoleRule(role) == [requiredRole |-> role, isPublic |-> FALSE]

\* The entries of ROUTE_PERMISSIONS in insertion order.
ROUTE_PERMISSIONS ==
  << [route |-> "/login",              config |-> PublicRule],
     [route |-> "/register",           config |-> PublicRule],
     [route |-> "/forgot-password",    config |-> PublicRule],
     [route |-> "/reset-password",     config |-> PublicRule],
     [route |-> "/dashboard",          config |-> RoleRule("client")],
     [route |-> "/dashboard/settings", config |-> RoleRule("client")],
     [route |-> "/dashboard/admin",    config |-> RoleRule("admin")],
     [route |-> "/dashboard/users",    config |-> RoleRule("admin")],
     [route |-> "/dashboard/projects", config |-> RoleRule("director")],
     [route |-> "/dashboard/content",  config |-> RoleRule("team")] >>

excludedPaths == <<"/api/", "/_next/", "/favicon.ico", "/public/">>

\* excludedPaths.some(path => pathname.startsWith(path))
isExcluded(pathname) ==
  \E n \in 1..Len(excludedPaths) : startsWith(pathname, excludedPaths[n])

DefaultRule == RoleRule("client")

\* Lines 230-236: the entries whose key ends in "/*" and whose key without
\* the "/*" the path starts with.
wildcardMatches(rules, path) ==
  {n \in 1..Len(rules) :
     /\ endsWith(rules[n].route, "/*")
     /\ startsWith(path, SubSeq(rules[n].route, 1, Len(rules[n].route) - 2))}

\* findRouteConfig over a table of rules: the exact key; else the first
\* wildcard entry in insertion order; else the default rule.
findRouteConfigIn(rules, path) ==
  IF \E n \in 1..Len(rules) : rules[n].route = path
    THEN (CHOOSE e \in {rules[n] : n \in 1..Len(rules)} : e.route = path).config
  ELSE IF wildcardMatches(rules, path) # {}
    THEN rules[CHOOSE n \in wildcardMatches(rules, path) :
                 \A m \in wildcardMatches(rules, path) : n <= m].config
  ELSE DefaultRule

findRouteConfig(path) == findRouteConfigIn(ROUTE_PERMISSIONS, path)

\* The middleware's own hasRole: checkInheritance over its own copy of the
\* hierarchy, without a visited set.
roleHierarchy ==
  [r \in Roles |->
     CASE r = "admin"    -> << >>
       [] r = "director" -> <<"admin">>
       [] r = "team"     -> <<"director", "admin">>
       [] r = "client"   -> << >>
       [] r = "builder"  -> <<"client">>]

RECURSIVE checkInheritance(_, _)
checkInheritance(current, target) ==
  IF current = target THEN TRUE
  ELSE \E n \in 1..Len(roleHierarchy[current]) :
         checkInheritance(roleHierarchy[current][n], target)

middlewareHasRole(userRole, requiredRole) ==
  IF userRole = requiredRole THEN TRUE
  ELSE checkInheritance(userRole, requiredRole)

\* Deepest nesting of checkInheritance calls the engine's stack holds; one
\* more call throws a RangeError.
MaxCallDepth == 6

\* checkInheritance over a role graph, as the code runs it: each parent in
\* turn, with no visited set; a call that throws ends the loop and the
\* callers.  The answer is "true", "false" or "RangeError".
RECURSIVE checkInheritanceIn(_, _, _, _)
RECURSIVE checkParentsIn(_, _, _, _, _)
checkInheritanceIn(H, current, target, depth) ==
  IF depth > MaxCallDepth THEN "RangeError"
  ELSE IF current = target THEN "true"
  ELSE checkParentsIn(H, current, 1, target, depth)

\* for (const parent of roleHierarchy[current]) from the n-th parent on.
checkParentsIn(H, current, n, target, depth) ==
  IF n > Len(H[current]) THEN "false"
  ELSE LET answer == checkInheritanceIn(H, H[current][n], target, depth + 1)
       IN IF answer = "false"
            THEN checkParentsIn(H, current, n + 1, target, depth)
            ELSE answer

\* The middleware's hasRole with the hierarchy as a parameter.
middlewareHasRoleIn(H, userRole, requiredRole) ==
  IF userRole = requiredRole THEN "true"
  ELSE checkInheritanceIn(H, userRole, requiredRole, 1)

\* Lines 157-168: the request is refused by the cross-site check.
csrfRefused(r) ==
  /\ r.method # "GET" /\ r.method # "HEAD"
  /\ (r.referer = "" \/ r.origin = "" \/ ~strIncludes(r.referer, r.host))

\* middleware(request) of the guide.
docsMiddleware(r, lookup, row, permissionError) ==
  IF isExcluded(r.path)
    THEN Respond("next", "", "", 0, 0)
  ELSE IF csrfRefused(r)
    THEN Respond("403", "", "", 0, 0)
  ELSE IF findRouteConfig(r.path).isPublic
    THEN Respond("next", "", "", 0, 0)
  ELSE IF r.session = NoUser
    THEN Respond("redirect", "/login", setSearchParam("redirect", r.path),
                 0, 0)
  ELSE IF findRouteConfig(r.path).requiredRole # NoRole
          /\ (lookup # "ok" \/ row.role = NoRole)
    THEN Respond("redirect", "/unauthorized", "", 0, 1)
  ELSE IF findRouteConfig(r.path).requiredRole # NoRole
          /\ ~middlewareHasRole(row.role, findRouteConfig(r.path).requiredRole)
    THEN Respond("redirect", "/unauthorized", "", 0, 1)
  ELSE Respond("next", "", "", 0,
               IF findRouteConfig(r.path).requiredRole # NoRole THEN 1 ELSE 0)

(***************************************************************************)
(* Page requests.                                                          *)
(***************************************************************************)
Paths ==
  {"/", "/login", "/login/help", "/register", "/unauthorized",
   "/forgot-password", "/api/auth/callback", "/api/data", "/_next/data",
   "/admin", "/admin/users", "/administrator", "/director",
   "/dashboard", "/dashboard/settings", "/dashboard/admin",
   "/dashboard/admin/audit", "/dashboard/users", "/dashboard/projects",
   "/dashboard/content", "/projects", "/projects/new", "/users/manage",
   "/profile"}

Methods == {"GET", "HEAD", "POST"}
Hosts == {"app.example"}
Referers == {"", "https://app.example/login", "https://other.example/"}
Origins == {"", "https://app.example"}

PageRequests ==
  [mw : {"page", "docs"}, path : Paths, method : Methods, host : Hosts,
   referer : Referers, origin : Origins, session : SessionUsers \cup {NoUser}]

\* A request reaches one of the two middlewares.
PageRequest ==
  /\ page = NoPage
  /\ \E r \in PageRequests :
       page' = [mw |-> r.mw, path |-> r.path, verdict |-> "", request |-> r]
  /\ UNCHANGED <<now, ticks, requestCounts, win, lastCall, users, config, req,
                 lastUpdate, lastRegister, login, calc,
                 lastToggle>>

\* The middleware answers; the users query and the check-permissions call
\* succeed or fail.
PageResponse(mw) ==
  /\ page.mw = mw /\ page.verdict = ""
  /\ \E lookup \in PageLookups, permissionError \in BOOLEAN :
       LET r == page.request
           row == IF r.session # NoUser /\ lookup = "ok"
                    THEN users[r.session] ELSE [role |-> NoRole]
           resp == IF mw = "page"
                     THEN pageMiddleware(r, lookup, row, permissionError)
                     ELSE docsMiddleware(r, lookup, row, permissionError)
       IN page' = [page EXCEPT !.verdict = resp.verdict] @@
                  [response |-> resp, lookup |-> lookup, role |-> row.role,
                   permissionError |-> permissionError]
  /\ UNCHANGED <<now, ticks, requestCounts, win, lastCall, users, config, req,
                 lastUpdate, lastRegister, login, calc,
                 lastToggle>>

PageMiddleware == PageResponse("page")
DocsMiddleware == PageResponse("docs")

\* One identity whose row holds any role, or an empty one; one request.
InitPage ==
  /\ now = 0 /\ ticks = 0
  /\ requestCounts = [k \in Keys |-> NoBucket]
  /\ win = [k \in Keys |-> NoWindow]
  /\ lastCall = NoCall
  /\ \E r \in Roles \cup {NoRole} :
       users = [u \in UserIds |->
         [role |-> IF u = "u1" THEN r ELSE "client",
          locked_until |-> NULL, active |-> TRUE]]
  /\ config = [i \in Slots |-> NoRoute]
  /\ req = [i \in Slots |-> IdleReq]
  /\ lastUpdate = NoUpdate
  /\ OthersIdle

NextPage ==
  \/ PageRequest
  \/ PageMiddleware
  \/ DocsMiddleware

SpecPage == InitPage /\ [][NextPage]_vars

(***************************************************************************)
(* getAllPermissions (lib/auth.ts 128-144): a Set filled with the direct   *)
(* permissions, then with those of every inherited role, read back in      *)
(* insertion order.                                                        *)
(***************************************************************************)
\* The values handed to the Set, in the order of the calls: the direct
\* permissions (the constructor's argument), then the permissions of each
\* inherited role (permissions.add).
RECURSIVE inserted(_, _, _)
inserted(values, inheritedRoles, n) ==
  IF n > Len(inheritedRoles) THEN values
  ELSE inserted(values \o ROLE_PERMISSIONS[inheritedRoles[n]],
                inheritedRoles, n + 1)

\* Array.from(new Set(values)): a Set keeps a value once, at the place of its
\* first insertion.
arrayFromSet(values) ==
  LET kept == {n \in 1..Len(values) :
                 \A m \in 1..(n - 1) : values[m] # values[n]}
  IN [k \in 1..Cardinality(kept) |->
        values[CHOOSE n \in kept : Cardinality({m \in kept : m <= n}) = k]]

\* A resolver that collects the permissions in an array.
getAllPermissionsConcat(H, userRole) ==
  IF userRole = NoRole THEN << >>
  ELSE inserted(ROLE_PERMISSIONS[userRole],
                getInheritedRolesIn(H, userRole), 1)

getAllPermissionsIn(H, userRole) ==
  IF userRole = NoRole THEN << >>
  ELSE arrayFromSet(inserted(ROLE_PERMISSIONS[userRole],
                             getInheritedRolesIn(H, userRole), 1))

getAllPermissions(userRole) == getAllPermissionsIn(ROLE_HIERARCHY, userRole)

(***************************************************************************)
(* Applications of the pure functions to inputs of bounded size.           *)
(***************************************************************************)
\* Longest list of parents a role has in a role graph.
MaxParents == 2

\* Role graphs over three roles: every role has a list of parents, in which
\* a role may occur more than once and may be the role itself.
GraphRoles == {"admin", "director", "team"}

ParentLists == UNION {[1..n -> GraphRoles] : n \in 0..MaxParents}

RoleGraphs == [GraphRoles -> ParentLists]

\* Tables of route rules, with their entries in one order and in the other.
RuleTables ==
  { ROUTE_PERMISSIONS,
    << [route |-> "/admin", config |-> RoleRule("admin")],
       [route |-> "/a",     config |-> RoleRule("client")] >>,
    << [route |-> "/a",     config |-> RoleRule("client")],
       [route |-> "/admin", config |-> RoleRule("admin")] >>,
    << [route |-> "/admin/*", config |-> RoleRule("admin")],
       [route |-> "/a/*",     config |-> RoleRule("team")] >>,
    << [route |-> "/a/*",     config |-> RoleRule("team")],
       [route |-> "/admin/*", config |-> RoleRule("admin")] >>,
    << [route |-> "/admin/*", config |-> RoleRule("admin")],
       [route |-> "/admin",   config |-> RoleRule("director")],
       [route |-> "/login",   config |-> PublicRule] >> }

RulePaths == Paths \cup {"/a", "/a/x", "/admin/sub", "/admin/*", "/other"}

\* getInheritedRoles with the hierarchy of the source or with a role graph.
GetInheritedRoles ==
  /\ calc = NoCalc
  /\ \/ \E role \in Roles :
          calc' = [fn |-> "getInheritedRoles", H |-> ROLE_HIERARCHY,
                   role |-> role, result |-> getInheritedRoles(role)]
     \/ \E H \in RoleGraphs, role \in GraphRoles :
          calc' = [fn |-> "getInheritedRoles", H |-> H, role |-> role,
                   result |-> getInheritedRolesIn(H, role)]
  /\ UNCHANGED <<now, ticks, requestCounts, win, lastCall, users, config, req,
                 lastUpdate, lastRegister, page, login,
                 lastToggle>>

GetAllPermissions ==
  /\ calc = NoCalc
  /\ \/ \E role \in Roles \cup {NoRole} :
          calc' = [fn |-> "getAllPermissions", H |-> ROLE_HIERARCHY,
                   role |-> role, result |-> getAllPermissions(role)]
     \/ \E H \in RoleGraphs, role \in GraphRoles :
          calc' = [fn |-> "getAllPermissions", H |-> H, role |-> role,
                   result |-> getAllPermissionsIn(H, role)]
  /\ UNCHANGED <<now, ticks, requestCounts, win, lastCall, users, config, req,
                 lastUpdate, lastRegister, page, login,
                 lastToggle>>

\* hasRole with the hierarchy of the source or with a role graph.
HasRole ==
  /\ calc = NoCalc
  /\ \/ \E userRole \in Roles \cup {NoRole}, requiredRole \in Roles :
          calc' = [fn |-> "hasRole", H |-> ROLE_HIERARCHY,
                   userRole |-> userRole, requiredRole |-> requiredRole,
                   result |-> hasRole(userRole, requiredRole)]
     \/ \E H \in RoleGraphs, userRole \in GraphRoles \cup {NoRole},
           requiredRole \in GraphRoles :
          calc' = [fn |-> "hasRole", H |-> H,
                   userRole |-> userRole, requiredRole |-> requiredRole,
                   result |-> hasRoleIn(H, userRole, requiredRole)]
  /\ UNCHANGED <<now, ticks, requestCounts, win, lastCall, users, config, req,
                 lastUpdate, lastRegister, page, login,
                 lastToggle>>

\* RoleGuard rendered for a user whose role has loaded; DirectorOnly is
\* RoleGuard with requiredRole director.
RenderRoleGuard ==
  /\ calc = NoCalc
  /\ \E requiredRole \in Roles \cup {NoRole}, userRole \in Roles \cup {NoRole} :
       calc' = [fn |-> "RoleGuard", requiredRole |-> requiredRole,
                userRole |-> userRole,
                result |-> IF requiredRole = "director"
                             THEN DirectorOnly(userRole)
                             ELSE RoleGuard(requiredRole, userRole)]
  /\ UNCHANGED <<now, ticks, requestCounts, win, lastCall, users, config, req,
                 lastUpdate, lastRegister, page, login,
                 lastToggle>>

\* One caller role put to the role gate of the page middleware, for a GET
\* of /admin or /director with a session, and to the role check of withAuth
\* on the route wrapped in withAdminAuth or withDirectorAuth.
RoleGates ==
  /\ calc = NoCalc
  /\ \E role \in Roles, path \in {"/admin", "/director"} :
       LET r == [mw |-> "page", path |-> path, method |-> "GET",
                 host |-> "app.example", referer |-> "", origin |-> "",
                 session |-> "u1"]
           cfg == IF path = "/admin" THEN withAdminAuth ELSE withDirectorAuth
       IN calc' = [fn |-> "roleGates", role |-> role, path |-> path,
                   middleware |->
                     pageMiddleware(r, "ok", [role |-> role], FALSE).verdict,
                   withAuth |-> roleChecks(cfg, role)]
  /\ UNCHANGED <<now, ticks, requestCounts, win, lastCall, users, config, req,
                 lastUpdate, lastRegister, page, login,
                 lastToggle>>

FindRouteConfig ==
  /\ calc = NoCalc
  /\ \E rules \in RuleTables, path \in RulePaths :
       calc' = [fn |-> "findRouteConfig", rules |-> rules, path |-> path,
                result |-> findRouteConfigIn(rules, path)]
  /\ UNCHANGED <<now, ticks, requestCounts, win, lastCall, users, config, req,
                 lastUpdate, lastRegister, page, login,
                 lastToggle>>

\* The middleware's hasRole with its own hierarchy or with a role graph,
\* next to the answer of the resolver's hasRole for the same arguments.
MiddlewareHasRole ==
  /\ calc = NoCalc
  /\ \/ \E userRole \in Roles, requiredRole \in Roles :
          calc' = [fn |-> "middlewareHasRole", H |-> roleHierarchy,
                   userRole |-> userRole, requiredRole |-> requiredRole,
                   result |-> middlewareHasRoleIn(roleHierarchy, userRole,
                                                  requiredRole),
                   resolver |-> hasRole(userRole, requiredRole)]
     \/ \E H \in RoleGraphs, userRole \in GraphRoles,
           requiredRole \in GraphRoles :
          calc' = [fn |-> "middlewareHasRole", H |-> H,
                   userRole |-> userRole, requiredRole |-> requiredRole,
                   result |-> middlewareHasRoleIn(H, userRole, requiredRole),
                   resolver |-> hasRoleIn(H, userRole, requiredRole)]
  /\ UNCHANGED <<now, ticks, requestCounts, win, lastCall, users, config, req,
                 lastUpdate, lastRegister, page, login, lastToggle>>

InitResolver ==
  /\ now = 0 /\ ticks = 0
  /\ requestCounts = [k \in Keys |-> NoBucket]
  /\ win = [k \in Keys |-> NoWindow]
  /\ lastCall = NoCall
  /\ users = DefaultUsers
  /\ config = [i \in Slots |-> NoRoute]
  /\ req = [i \in Slots |-> IdleReq]
  /\ lastUpdate = NoUpdate
  /\ OthersIdle

NextResolver ==
  \/ GetInheritedRoles
  \/ GetAllPermissions
  \/ HasRole
  \/ RenderRoleGuard
  \/ RoleGates
  \/ FindRouteConfig

SpecResolver == InitResolver /\ [][NextResolver]_vars

NextMiddlewareRoles == MiddlewareHasRole

\* One call of the middleware's hasRole.
SpecMiddlewareRoles == InitResolver /\ [][NextMiddlewareRoles]_vars

(***************************************************************************)
(* The permission check of the database (migration, 33-94) and the lists   *)
(* of the user-management page.                                            *)
(***************************************************************************)
\* The rows seeded into public.role_permissions, as <<role, permission>>.
role_permissions ==
  { <<"admin", "manage:users">>, <<"admin", "view:users">>,
    <<"admin", "manage:projects">>, <<"admin", "view:projects">>,
    <<"admin", "manage:content">>, <<"admin", "submit:content">>,
    <<"admin", "view:analytics">>, <<"admin", "manage:settings">>,
    <<"admin", "manage:roles">>,
    <<"director", "view:users">>, <<"director", "manage:projects">>,
    <<"director", "view:projects">>, <<"director", "manage:content">>,
    <<"director", "submit:content">>, <<"director", "view:analytics">>,
    <<"team", "view:projects">>, <<"team", "manage:content">>,
    <<"team", "submit:content">>, <<"team", "view:analytics">>,
    <<"client", "view:projects">>, <<"client", "submit:content">>,
    <<"builder", "view:projects">> }

\* public.has_permission(user_id, required_permission): the role of the
\* user's row, then a row of role_permissions with that role and permission.
has_permission(tbl, user_id, required_permission) ==
  LET user_role == IF user_id \in DOMAIN tbl THEN <<tbl[user_id].role>>
                   ELSE NULL
  IN /\ user_role # NULL
     /\ <<user_role[1], required_permission>> \in role_permissions

\* The "Role Permissions" cards of the page: the permissions each bullet
\* names ("Manage users and roles" names two).
UsersPageRolePermissions ==
  [r \in Roles |->
     CASE r = "admin" ->
            <<"manage:users", "manage:roles", "manage:projects",
              "view:analytics", "manage:content", "manage:settings">>
       [] r = "director" ->
            <<"view:users", "manage:projects", "view:analytics",
              "manage:content">>
       [] r = "team" ->
            <<"view:projects", "manage:content", "view:analytics">>
       [] r = "client"  -> <<"view:projects", "submit:content">>
       [] r = "builder" -> <<"view:projects">>]

\* One permission of one user put to the database check and to the
\* application check.
HasPermission ==
  /\ calc = NoCalc
  /\ \E u \in UserIds, permission \in Permissions :
       calc' = [fn |-> "has_permission", user |-> u, role |-> users[u].role,
                permission |-> permission,
                sql |-> has_permission(users, u, permission),
                app |-> hasPermission(users[u].role, permission),
                page |-> includes(UsersPageRolePermissions[users[u].role],
                                  permission)]
  /\ UNCHANGED <<now, ticks, requestCounts, win, lastCall, users, config, req,
                 lastUpdate, lastRegister, page, login,
                 lastToggle>>

NextPermissions == HasPermission

\* Users of any roles; one permission check.
SpecPermissions == InitRoles /\ [][NextPermissions]_vars

(***************************************************************************)
(* Accounts are deactivated and reactivated, then one request of the       *)
(* identity arrives, either at a guarded API route or at one of the two    *)
(* page middlewares.                                                       *)
(***************************************************************************)
\* The routes of the guarded handler: no requirement, withAdminAuth, and a
\* list of required permissions.
ActiveConfigs ==
  {EmptyConfig, withAdminAuth,
   [EmptyConfig EXCEPT !.requiredPermissions = <<"view:projects">>]}

\* Page navigations: GET requests without a referer, to a public path, to
\* paths with a role rule or a permission rule, to a path outside the
\* matcher and to a path with no rule.
NavigationPaths ==
  {"/login", "/admin", "/dashboard", "/projects/new", "/api/data", "/profile"}

Navigations ==
  {r \in PageRequests :
     /\ r.path \in NavigationPaths
     /\ r.method = "GET" /\ r.referer = "" /\ r.origin = ""}

NoRequestYet == page = NoPage /\ \A i \in Slots : req[i].pc = "idle"

ToggleBeforeRequest == NoRequestYet /\ ToggleUserActive

ApiRequest(i) == page = NoPage /\ Begin(i)

Navigation ==
  /\ NoRequestYet
  /\ \E r \in Navigations :
       page' = [mw |-> r.mw, path |-> r.path, verdict |-> "", request |-> r]
  /\ UNCHANGED <<now, ticks, requestCounts, win, lastCall, users, config, req,
                 lastUpdate, lastRegister, login, calc, lastToggle>>

InitActive ==
  /\ now = 0 /\ ticks = 0
  /\ requestCounts = [k \in Keys |-> NoBucket]
  /\ win = [k \in Keys |-> NoWindow]
  /\ lastCall = NoCall
  /\ \E r \in Roles :
       users = [u \in UserIds |->
         [role |-> IF u = "u1" THEN r ELSE "admin",
          locked_until |-> NULL, active |-> TRUE]]
  /\ \E c \in ActiveConfigs :
       config = [i \in Slots |-> IF i = 1 THEN c ELSE NoRoute]
  /\ req = [i \in Slots |-> IdleReq]
  /\ lastUpdate = NoUpdate
  /\ OthersIdle

NextActive ==
  \/ ToggleBeforeRequest
  \/ \E i \in Slots : ApiRequest(i)
  \/ \E i \in Slots : SessionThrows(i)
  \/ \E i \in Slots : NoSession(i)
  \/ \E i \in Slots : SessionFound(i)
  \/ \E i \in Slots : RoleResolved(i)
  \/ \E i \in Slots : AuditDone(i)
  \/ Navigation
  \/ PageMiddleware
  \/ DocsMiddleware

SpecActive == InitActive /\ [][NextActive]_vars

(***************************************************************************)
(* A role is updated through either implementation of updateUserRole, then *)
(* one request of the identity arrives at a guarded API route.  The second *)
(* user, who may call the action too, starts as an admin or a director.    *)
(***************************************************************************)
FirstUpdate == NoRequestYet /\ lastUpdate = NoUpdate

UpdateBeforeRequest == FirstUpdate /\ UpdateUserRole

RoleManagementUpdateBeforeRequest ==
  FirstUpdate /\ RoleManagementUpdateUserRole

InitRoleChange ==
  /\ now = 0 /\ ticks = 0
  /\ requestCounts = [k \in Keys |-> NoBucket]
  /\ win = [k \in Keys |-> NoWindow]
  /\ lastCall = NoCall
  /\ \E r1 \in Roles, r2 \in {"admin", "director"} :
       users = [u \in UserIds |->
         [role |-> IF u = "u1" THEN r1 ELSE r2,
          locked_until |-> NULL, active |-> TRUE]]
  /\ \E c \in ActiveConfigs \ {EmptyConfig} :
       config = [i \in Slots |-> IF i = 1 THEN c ELSE NoRoute]
  /\ req = [i \in Slots |-> IdleReq]
  /\ lastUpdate = NoUpdate
  /\ OthersIdle

NextRoleChange ==
  \/ UpdateBeforeRequest
  \/ RoleManagementUpdateBeforeRequest
  \/ \E i \in Slots : Begin(i)
  \/ \E i \in Slots : SessionThrows(i)
  \/ \E i \in Slots : NoSession(i)
  \/ \E i \in Slots : SessionFound(i)
  \/ \E i \in Slots : RoleResolved(i)
  \/ \E i \in Slots : AuditDone(i)

SpecRoleChange == InitRoleChange /\ [][NextRoleChange]_vars

(***************************************************************************)
(* The login columns of public.users and the trigger that resets them      *)
(* (migration, 8-10 and 97-113), with the failure report of the            *)
(* authentication flow.                                                    *)
(***************************************************************************)
\* Failed attempts after which the identity is locked, and the length of a
\* lock.
LOCK_THRESHOLD == 3
LOCK_DURATION == 2

\* Latest instant of a behaviour of the login columns.
MaxLoginTime == 3

\* reset_failed_login_attempts, BEFORE UPDATE FOR EACH ROW, with the old and
\* the new row of the update: the row that is stored.  A comparison with NULL is not true, so with no earlier
\* last_login the IF branch is not taken.
reset_failed_login_attempts(oldRow, newRow) ==
  IF newRow.last_login # NULL
       /\ (oldRow.last_login # NULL
             /\ newRow.last_login[1] > oldRow.last_login[1])
    THEN [newRow EXCEPT !.failed_login_attempts = 0, !.locked_until = NULL]
    ELSE newRow

\* A failure report that counts the attempt and never locks.
reportFailureNeverLocks(row, t) ==
  [row EXCEPT !.failed_login_attempts = @ + 1]

\* The update a failed credential check makes: the counter goes up by one,
\* and when it reaches the threshold the lock expiry is set.
reportFailure(row, t) ==
  LET n == row.failed_login_attempts + 1
  IN [row EXCEPT !.failed_login_attempts = n,
                 !.locked_until = IF n >= LOCK_THRESHOLD
                                    THEN <<t + LOCK_DURATION>> ELSE @]

\* The update a successful login makes: UPDATE users SET last_login = now.
recordLogin(row, t) == [row EXCEPT !.last_login = <<t>>]

Active(row, t) == row.locked_until = NULL \/ row.locked_until[1] <= t

\* The authentication flow reports a failed credential check.
ReportFailure ==
  /\ login.row.failed_login_attempts < LOCK_THRESHOLD + MaxOver
  /\ login' =
       [row |-> reset_failed_login_attempts(login.row,
                                            reportFailure(login.row, now)),
        op |-> "failure",
        streak |-> IF login.streak >= 0 THEN login.streak + 1 ELSE login.streak]
  /\ UNCHANGED <<now, ticks, requestCounts, win, lastCall, users, config, req,
                 lastUpdate, lastRegister, page, calc,
                 lastToggle>>

\* The authentication flow records a successful login.
RecordLogin ==
  /\ LET row == reset_failed_login_attempts(login.row,
                                            recordLogin(login.row, now))
     IN login' =
          [row |-> row, op |-> "login",
           streak |-> IF row.failed_login_attempts = 0 /\ Active(row, now)
                        THEN 0 ELSE -1]
  /\ UNCHANGED <<now, ticks, requestCounts, win, lastCall, users, config, req,
                 lastUpdate, lastRegister, page, calc,
                 lastToggle>>

\* Time passes.
LoginTick ==
  /\ now < MaxLoginTime
  /\ now' = now + 1
  /\ login' = [login EXCEPT !.op = "tick"]
  /\ UNCHANGED <<ticks, requestCounts, win, lastCall, users, config, req,
                 lastUpdate, lastRegister, page, calc,
                 lastToggle>>

\* An Active identity with counter 0 that has logged in before, or never.
InitLogin ==
  /\ now = 0 /\ ticks = 0
  /\ requestCounts = [k \in Keys |-> NoBucket]
  /\ win = [k \in Keys |-> NoWindow]
  /\ lastCall = NoCall
  /\ users = DefaultUsers
  /\ config = [i \in Slots |-> NoRoute]
  /\ req = [i \in Slots |-> IdleReq]
  /\ lastUpdate = NoUpdate
  /\ lastRegister = NoRegister
  /\ page = NoPage
  /\ calc = NoCalc
  /\ lastToggle = NoToggle
  /\ \E last \in {NULL, <<0>>} :
       login = [NoLogin EXCEPT !.row.last_login = last]

NextLogin ==
  \/ ReportFailure
  \/ RecordLogin
  \/ LoginTick

SpecLogin == InitLogin /\ [][NextLogin]_vars

(***************************************************************************)
(* Claims about withAuth, checked under Spec.                              *)
(***************************************************************************)
Done(i) == req[i].pc = "done"

DenyStatuses == {"401", "429", "403", "500"}

\* The conditions C1 lists, for the invocation in slot i: a session exists,
\* isRateLimited returned false, and the role the lookup gave satisfies the
\* role, all-permissions and any-permission requirements of the route.
ListedChecksHold(i) ==
  LET r == req[i]
      c == config[i]
  IN /\ r.session \in UserIds
     /\ r.rlCalled /\ ~r.limited
     /\ c.requiredRole # NoRole => hasRole(r.userRole, c.requiredRole)
     /\ c.requiredPermissions # Undefined =>
          \A n \in 1..Len(c.requiredPermissions) :
            hasPermission(r.userRole, c.requiredPermissions[n])
     /\ (c.anyPermission # Undefined /\ Len(c.anyPermission) > 0) =>
          \E n \in 1..Len(c.anyPermission) :
            hasPermission(r.userRole, c.anyPermission[n])

\* The route sets requiredRole or defines one of the permission lists.
DefinesRequirement(c) ==
  \/ c.requiredRole # NoRole
  \/ c.requiredPermissions # Undefined
  \/ c.anyPermission # Undefined

AllChecksPass(i) ==
  /\ ListedChecksHold(i)
  /\ DefinesRequirement(config[i]) =>
       (req[i].lookup = "ok" /\ req[i].userRole # NoRole)

\* C1 as stated: the handler is invoked only if the listed conditions held;
\* otherwise it is never invoked and a 401, 429, 403 or 500 is returned; when
\* they all hold the handler is invoked exactly once.
C1_AsStated ==
  \A i \in Slots :
    /\ req[i].handlerCalls > 0 => ListedChecksHold(i)
    /\ (Done(i) /\ ~ListedChecksHold(i)) =>
         (req[i].handlerCalls = 0 /\ req[i].status \in DenyStatuses)
    /\ (Done(i) /\ ListedChecksHold(i)) => req[i].handlerCalls = 1

\* C1, amended: as C1, with one more condition among those that must hold:
\* when the route sets requiredRole or defines requiredPermissions or
\* anyPermission (an empty list included), the role lookup returned a role.
C1_HandlerOnlyWhenAllChecksPass ==
  \A i \in Slots :
    /\ req[i].handlerCalls > 0 => AllChecksPass(i)
    /\ (Done(i) /\ ~AllChecksPass(i)) =>
         (req[i].handlerCalls = 0 /\ req[i].status \in DenyStatuses)
    /\ (Done(i) /\ AllChecksPass(i)) => req[i].handlerCalls = 1
    /\ req[i].handlerCalls <= 1

\* A role-and-permission-gated request that passed every check and whose
\* handler ran.
C1_Witness ==
  \E i \in Slots :
    /\ Done(i) /\ req[i].handlerCalls = 1 /\ req[i].status = "200"
    /\ config[i].requiredRole = "admin" /\ req[i].userRole = "admin"
    /\ config[i].requiredPermissions = <<"view:projects", "manage:roles">>
    /\ config[i].anyPermission = <<"manage:roles">>

\* C2: every call of withAuth makes exactly one logApiAccess call, whichever
\* branch is taken, an error raised by the handler included.
C2_ExactlyOneAuditEvent ==
  \A i \in Slots : Done(i) => Len(req[i].audits) = 1

\* The response and the number of handler calls that the inputs of an
\* invocation determine, the audit sink left out.
ExpectedStatus(i) ==
  LET r == req[i]
      c == config[i]
  IN IF r.session = "throws" THEN "500"
     ELSE IF r.session = "none" THEN "401"
     ELSE IF r.limited THEN "429"
     ELSE IF DefinesRequirement(c) /\ r.lookup = "throws" THEN "500"
     ELSE IF DefinesRequirement(c) /\ (r.lookup # "ok" \/ r.userRole = NoRole)
       THEN "403"
     ELSE IF ~ListedChecksHold(i) THEN "403"
     ELSE IF r.handler = "returns" THEN "200"
     ELSE IF r.handler = "throws" THEN "500"
     ELSE "rejected"

ExpectedHandlerCalls(i) == IF AllChecksPass(i) THEN 1 ELSE 0

\* C3: the response and whether the handler is invoked are the same whether
\* the audit insert succeeds, returns an error or throws, on every branch;
\* logApiAccess never propagates an exception.
C3_SinkFailureNeverAltersVerdict ==
  /\ \A sink \in SinkOutcomes : logApiAccess(sink) = "returned"
  /\ \A i \in Slots :
       Done(i) => /\ req[i].status = ExpectedStatus(i)
                  /\ req[i].handlerCalls = ExpectedHandlerCalls(i)

\* A request denied for its role whose audit insert threw.
C3_Witness ==
  \E i \in Slots :
    /\ Done(i) /\ req[i].sinkThrew
    /\ req[i].status = "403" /\ req[i].audits = <<"Insufficient role">>

\* C4: while the identity is Locked (locked_until set and not passed) the
\* guard denies its requests, whatever its role and permissions.
C4_LockedIdentityDenied ==
  \A i \in Slots :
    (Done(i) /\ req[i].locked) =>
      (req[i].handlerCalls = 0 /\ req[i].status \in DenyStatuses)

\* C8: on a route that requires director, a caller whose role is admin is
\* denied with 403 and the insufficient-role reason, and the handler is not
\* invoked.
C8_AdminDeniedOnDirectorRoute ==
  \A i \in Slots :
    (Done(i) /\ config[i] = withDirectorAuth /\ req[i].userRole = "admin") =>
      /\ req[i].status = "403"
      /\ req[i].handlerCalls = 0
      /\ req[i].audits = <<"Insufficient role">>

C8_Witness ==
  \E i \in Slots :
    /\ Done(i) /\ config[i] = withDirectorAuth /\ req[i].userRole = "admin"
    /\ req[i].status = "403"

\* C9: a route wrapped in withAdminAuth, and content wrapped in AdminOnly,
\* is reachable only by admin: for every other role the handler is not
\* invoked and the children are not rendered.
C9_AdminOnly ==
  \A i \in Slots :
    (Done(i) /\ config[i] = withAdminAuth
       /\ req[i].userRole \in Roles \ {"admin"}) =>
      /\ req[i].handlerCalls = 0
      /\ AdminOnly(req[i].userRole) = "fallback"


(***************************************************************************)
(* Claims about the rate limiter, checked under SpecWindow and SpecConc.   *)
(***************************************************************************)
\* C5: counting the calls for a key from the creation of its bucket, calls
\* 1..60 of a window return false and call 61 returns true; the first call
\* for a key with no bucket, or made after the window has elapsed, sets the
\* count to 1, opens a window of RATE_LIMIT_WINDOW_MS and returns false.
C5_ThresholdAndReset ==
  lastCall.key # "" =>
    /\ lastCall.nth <= MAX_REQUESTS_PER_MINUTE => ~lastCall.result
    /\ lastCall.nth = MAX_REQUESTS_PER_MINUTE + 1 => lastCall.result
    /\ lastCall.fresh =>
         /\ ~lastCall.result
         /\ lastCall.after =
              [count |-> 1, resetTime |-> lastCall.at + RATE_LIMIT_WINDOW_MS]

\* The call after a window in which the key had been denied: it is allowed.
C5_Witness ==
  /\ lastCall.fresh
  /\ lastCall.before.count = MAX_REQUESTS_PER_MINUTE + 1
  /\ lastCall.after.count = 1 /\ ~lastCall.result

\* C6: a denied call still increments the count, and once a key has been
\* denied in a window every later call in that window is denied.
C6_DenialPersists ==
  lastCall.key # "" =>
    /\ lastCall.result => lastCall.after.count = lastCall.before.count + 1
    /\ lastCall.deniedBefore => lastCall.result

\* The second denied call of a window.
C6_Witness ==
  /\ lastCall.deniedBefore /\ lastCall.result
  /\ lastCall.after.count = MAX_REQUESTS_PER_MINUTE + 2

\* C7: under every interleaving of concurrent invocations for one identity,
\* no increment is lost: the bucket's count is the number of requests that
\* passed the rate-limit step in its window, and at most 60 were allowed.
C7_NoLostIncrement ==
  \A k \in Keys :
    /\ requestCounts[k].count = win[k].calls
    /\ win[k].allowed <= MAX_REQUESTS_PER_MINUTE

\* Two invocations in flight at once, both past the rate-limit step within
\* one window, the first allowed as call 60 and the second denied as call 61.
C7_Witness ==
  \E i, j \in Slots :
    /\ i # j
    /\ req[i].pc = "audit" /\ req[i].rlCalled /\ ~req[i].limited
    /\ req[j].pc = "audit" /\ req[j].rlCalled /\ req[j].limited
    /\ requestCounts["u1"].count = MAX_REQUESTS_PER_MINUTE + 1
    /\ win["u1"].allowed = MAX_REQUESTS_PER_MINUTE


\* C26: a bucket's resetTime is set when the bucket is created or reset, to
\* the time of that call plus RATE_LIMIT_WINDOW_MS, and a later call inside
\* the window leaves it as it is; a new window begins after the end of the
\* one before; and in a window at most MAX_REQUESTS_PER_MINUTE calls of a
\* key are allowed.
C26_FixedWindow ==
  /\ lastCall.key # "" =>
       /\ lastCall.fresh =>
            /\ lastCall.after.resetTime = lastCall.at + RATE_LIMIT_WINDOW_MS
            /\ lastCall.before # NoBucket =>
                 lastCall.at > lastCall.before.resetTime
       /\ ~lastCall.fresh =>
            /\ lastCall.after.resetTime = lastCall.before.resetTime
            /\ lastCall.at <= lastCall.before.resetTime
  /\ \A k \in Keys : win[k].allowed <= MAX_REQUESTS_PER_MINUTE

\* A call made at the very end of a window, later than the call that opened
\* it: it is counted in that window and the window's end stays.
C26_Witness ==
  /\ lastCall.key # "" /\ ~lastCall.fresh
  /\ lastCall.at = lastCall.before.resetTime
  /\ lastCall.after.resetTime = lastCall.before.resetTime
  /\ lastCall.after.count = lastCall.before.count + 1

(***************************************************************************)
(* Claims about the role-update action, checked under SpecRoles.           *)
(***************************************************************************)
\* C10: updateUserRole is admin only: the action changes a user's role only
\* when the caller's own role is admin, and a caller whose role is director,
\* team, client or builder never makes a user admin, director or team.
C10_UpdateUserRoleAdminOnly ==
  lastUpdate.applied =>
    /\ lastUpdate.callerRole = "admin"
    /\ lastUpdate.callerRole \in Roles \ {"admin"} =>
         lastUpdate.role \notin {"admin", "director", "team"}

\* C11: a caller whose role is director, through either implementation of
\* updateUserRole, never sets a user's role to admin, director or team.
C11_DirectorAssignsOnlyClientOrBuilder ==
  (lastUpdate.applied /\ lastUpdate.callerRole = "director") =>
    lastUpdate.role \in {"client", "builder"}

\* C12: registerUser creates an account of a role other than client only
\* for an authenticated admin, or for an authenticated director asking for
\* builder; an anonymous caller and a caller whose role is team, client,
\* builder or unknown create only client accounts; a request rejected for
\* its role performs no signUp and no profile insert.
RegisterRejections ==
  {"You do not have permission to create users with this role",
   "Anonymous registrations can only create client accounts"}

C12_RegisterUserRoles ==
  /\ lastRegister.created \notin {NoRole, "client"} =>
        \/ lastRegister.caller # NoUser /\ lastRegister.callerRole = "admin"
        \/ /\ lastRegister.caller # NoUser
           /\ lastRegister.callerRole = "director"
           /\ lastRegister.created = "builder"
  /\ (lastRegister.caller = NoUser
        \/ lastRegister.callerRole \in {"team", "client", "builder", NoRole}) =>
        lastRegister.created \in {NoRole, "client"}
  /\ (lastRegister.result # "" /\ lastRegister.role # "client"
        /\ lastRegister.callerRole # "admin"
        /\ ~(lastRegister.callerRole = "director"
             /\ lastRegister.role = "builder")) =>
        (lastRegister.signUps = 0 /\ lastRegister.inserts = 0)
  /\ lastRegister.result \in RegisterRejections =>
        (lastRegister.signUps = 0 /\ lastRegister.inserts = 0)

\* A director created a builder account.
C12_Witness ==
  /\ lastRegister.callerRole = "director" /\ lastRegister.created = "builder"
  /\ lastRegister.result = "success" /\ lastRegister.inserts = 1

\* A team caller asking for a builder account was refused before signUp.
C12_WitnessRejected ==
  /\ lastRegister.callerRole = "team" /\ lastRegister.role = "builder"
  /\ lastRegister.result \in RegisterRejections /\ lastRegister.signUps = 0

(***************************************************************************)
(* Claims about the page middlewares, checked under SpecPage.              *)
(***************************************************************************)
Answered == page.verdict # ""

\* The path of the request matches a public rule of the middleware it
\* reached.
OnPublicRoute ==
  IF page.mw = "page" THEN isPublicRoute(page.path)
  ELSE findRouteConfig(page.path).isPublic

\* C13 as stated: a request to a public route proceeds, whatever its method
\* and headers, with or without a session, and whatever the role lookup and
\* the permission check would answer.
C13_AsStated ==
  (Answered /\ OnPublicRoute) => page.verdict = "next"

\* C13, amended: a request to a public route proceeds, with or without a
\* session and whatever the role lookup and the permission check would
\* answer, except that the middleware of the guide first refuses with 403 a
\* request whose method is neither GET nor HEAD and whose Referer or Origin
\* is missing or whose Referer does not contain the Host.
C13_PublicRouteNeedsNoSession ==
  (Answered /\ OnPublicRoute) =>
    IF page.mw = "docs" /\ csrfRefused(page.request)
      THEN page.verdict = "403"
      ELSE page.verdict = "next"

\* A POST to /login without a session that the first middleware lets through.
C13_Witness ==
  /\ Answered /\ page.mw = "page" /\ page.path = "/login"
  /\ page.request.method = "POST" /\ page.request.session = NoUser
  /\ page.request.referer = "" /\ page.verdict = "next"

\* The path is not public and no configured rule covers it.
OnUnknownRoute ==
  IF page.mw = "page"
    THEN /\ ~isPublicRoute(page.path)
         /\ \A n \in 1..Len(routeRoles) :
              ~underRoute(page.path, routeRoles[n].route)
         /\ \A n \in 1..Len(routePermissions) :
              ~underRoute(page.path, routePermissions[n].route)
    ELSE /\ ~isExcluded(page.path)
         /\ \A n \in 1..Len(ROUTE_PERMISSIONS) :
              ROUTE_PERMISSIONS[n].route # page.path

\* C15: a request to a path that no rule covers and that is not public
\* proceeds only with a session and a resolved role, and findRouteConfig
\* gives such a path the default rule that requires client.
C15_FailClosedOnUnknownRoutes ==
  (Answered /\ OnUnknownRoute) =>
    /\ page.verdict = "next" =>
         (page.request.session # NoUser /\ page.lookup = "ok"
            /\ page.role \in Roles)
    /\ page.mw = "docs" => findRouteConfig(page.path) = RoleRule("client")

(***************************************************************************)
(* Claims about requests without a session, checked under SpecPage.        *)
(***************************************************************************)
\* The value of a parameter read back from the query of a redirect URL:
\* URLSearchParams.get decodes what set encoded.
RECURSIVE formDecode(_)
formDecode(str) ==
  IF Len(str) = 0 THEN ""
  ELSE IF startsWith(str, "%2F")
    THEN "/" \o formDecode(SubSeq(str, 4, Len(str)))
  ELSE SubSeq(str, 1, 1) \o formDecode(SubSeq(str, 2, Len(str)))

getSearchParam(query, name) ==
  IF startsWith(query, name \o "=")
    THEN <<formDecode(SubSeq(query, Len(name) + 2, Len(query)))>>
    ELSE << >>

\* The parameter in which the middleware hands the path to the login page.
ReturnParam == IF page.mw = "page" THEN "redirectedFrom" ELSE "redirect"

RedirectedToLoginWithPath ==
  /\ page.verdict = "redirect"
  /\ page.response.location = "/login"
  /\ getSearchParam(page.response.param, ReturnParam) = <<page.path>>
  /\ page.response.queries = 0

Unauthenticated == page.request.session = NoUser

\* C28 as stated: a request without a session to a route that is not public
\* is redirected to /login with its pathname in the redirectedFrom or
\* redirect parameter, and no users query is made for it.
C28_AsStated ==
  (Answered /\ Unauthenticated /\ ~OnPublicRoute) => RedirectedToLoginWithPath

\* C28, amended: as C28, except in the middleware of the guide for a path
\* under one of excludedPaths, which proceeds without a session check, and
\* for a request its cross-site check refuses, which is answered 403; in
\* both cases no users query is made either.
C28_UnauthenticatedRedirectKeepsPath ==
  (Answered /\ Unauthenticated /\ ~OnPublicRoute) =>
    IF page.mw = "docs" /\ isExcluded(page.path)
      THEN page.verdict = "next" /\ page.response.queries = 0
    ELSE IF page.mw = "docs" /\ csrfRefused(page.request)
      THEN page.verdict = "403" /\ page.response.queries = 0
    ELSE RedirectedToLoginWithPath

\* A request for /dashboard/admin/audit without a session, sent to the first
\* middleware: the redirect carries the whole path.
C28_Witness ==
  /\ Answered /\ Unauthenticated /\ page.mw = "page"
  /\ page.path = "/dashboard/admin/audit"
  /\ page.response.location = "/login"
  /\ page.response.param = "redirectedFrom=%2Fdashboard%2Fadmin%2Faudit"

\* C30: the middleware of example.test.tsx makes exactly one log_auth_event
\* call for every decision: public allow, unauthenticated redirect,
\* role-lookup failure, role denial, permission denial, and allow.
C30_PageMiddlewareOneAuditPerDecision ==
  (Answered /\ page.mw = "page") => page.response.audits = 1

(***************************************************************************)
(* Claims about the rules the page middleware applies, checked under       *)
(* SpecPage.                                                               *)
(***************************************************************************)
\* The route of a rule equals the path or is a prefix of it that ends where
\* a "/" of the path begins.
RuleCovers(route, path) ==
  \/ route = path
  \/ /\ Len(route) < Len(path)
     /\ SubSeq(path, 1, Len(route)) = route
     /\ SubSeq(path, Len(route) + 1, Len(route) + 1) = "/"

\* The caller satisfies every entry of routeRoles and of routePermissions
\* that covers the path of the request: its role is listed, and the
\* permission check was answered, with a yes.
SatisfiesEveryCoveringRule ==
  /\ \A n \in 1..Len(routeRoles) :
       RuleCovers(routeRoles[n].route, page.path) =>
         \E k \in 1..Len(routeRoles[n].roles) :
           routeRoles[n].roles[k] = page.role
  /\ \A n \in 1..Len(routePermissions) :
       RuleCovers(routePermissions[n].route, page.path) =>
         /\ ~page.permissionError
         /\ checkPermissions(page.role, routePermissions[n].permissions)

\* C34: the middleware of example.test.tsx lets a request to a non-public
\* path proceed only if the caller satisfies every entry of routeRoles and
\* routePermissions whose route covers the path; a permission check that
\* fails or gives no result is a denial.
C34_EveryMatchingRuleApplies ==
  (Answered /\ page.mw = "page" /\ ~OnPublicRoute /\ page.verdict = "next")
    => SatisfiesEveryCoveringRule

\* "/projects/new" is covered by "/projects" and by "/projects/new": a
\* client, who holds view:projects and not manage:projects, is refused.
C34_Witness ==
  /\ Answered /\ page.mw = "page"
  /\ page.path = "/projects/new"
  /\ page.role = "client" /\ ~page.permissionError
  /\ checkPermissions("client", <<"view:projects">>)
  /\ page.verdict = "redirect"
  /\ page.response.location = "/unauthorized"

(***************************************************************************)
(* Claims about the default rule of the guide's middleware, checked under  *)
(* SpecPage.                                                               *)
(***************************************************************************)
\* No key of ROUTE_PERMISSIONS is the path, and no wildcard key covers it.
NoConfiguredRule(path) ==
  /\ \A n \in 1..Len(ROUTE_PERMISSIONS) : ROUTE_PERMISSIONS[n].route # path
  /\ wildcardMatches(ROUTE_PERMISSIONS, path) = {}

\* An authenticated caller whose row was read and holds one of the five
\* roles asks the guide's middleware for a path it handles.
AuthenticatedWithRole ==
  /\ Answered /\ page.mw = "docs"
  /\ ~isExcluded(page.path) /\ ~csrfRefused(page.request)
  /\ page.request.session # NoUser
  /\ page.lookup = "ok" /\ page.role \in Roles

\* C35: for a path with no configured rule the middleware lets every
\* authenticated caller proceed, whichever of the five roles it holds.
C35_DefaultRuleAdmitsEveryRole ==
  (AuthenticatedWithRole /\ NoConfiguredRule(page.path))
    => page.verdict = "next"

(***************************************************************************)
(* Claims about the rows written to audit_logs, checked under Spec.        *)
(***************************************************************************)
\* The arguments of the n-th logApiAccess call of the invocation in slot i
\* (apiAuth.ts 90, 102, 119, 131, 146, 169, 186, 189, 198): no user id
\* without a session or from the catch block, a role only after the role
\* was read, no reason for a granted request.
AuditRow(i, n) ==
  LET reason == req[i].audits[n]
      withRole == {"Insufficient role", "Missing required permissions",
                   "No matching permissions", "success"}
  IN auditLogRow("/api/route", "GET",
       IF reason \in {"No session", "Error"} THEN NoUser ELSE req[i].userId,
       IF reason \in withRole THEN req[i].userRole ELSE NoRole,
       reason = "success",
       IF reason = "success" THEN "" ELSE reason)

\* C37: every row logApiAccess hands to the insert satisfies the
\* constraints of audit_logs, the NOT NULL action column among them.
C37_AuditRowsSatisfySchema ==
  \A i \in Slots :
    \A n \in 1..Len(req[i].audits) :
      insertAccepted(audit_logs, AuditRow(i, n))

(***************************************************************************)
(* Claims about a role that cannot be obtained, checked under Spec.        *)
(***************************************************************************)
\* The identity of the invocation in slot i is authenticated and its role
\* cannot be obtained: the users query failed or found no row, or the row
\* holds no role.
RoleUnavailable(i) ==
  /\ req[i].session \in UserIds
  /\ \/ req[i].lookup \in {"error", "norow"}
     \/ users[req[i].userId].role = NoRole

\* C16: when the role of an authenticated identity cannot be obtained the
\* guard denies, on a route of any configuration, one with no role or
\* permission requirement included: withAuth does not invoke the handler.
C16_PolicyLookupFailedDenies ==
  \A i \in Slots :
    (Done(i) /\ RoleUnavailable(i)) =>
      (req[i].handlerCalls = 0 /\ req[i].status \in DenyStatuses)

(***************************************************************************)
(* Claims about the permission modes of withAuth, checked under Spec.      *)
(***************************************************************************)
\* The invocation in slot i got as far as the permission checks: it has a
\* session, was not rate limited, its role was found, and the role satisfies
\* requiredRole when the route sets one.
ReachedPermissionChecks(i) ==
  /\ req[i].session \in UserIds
  /\ req[i].rlCalled /\ ~req[i].limited
  /\ req[i].lookup = "ok" /\ req[i].userRole # NoRole
  /\ config[i].requiredRole # NoRole =>
       hasRole(req[i].userRole, config[i].requiredRole)

HoldsAll(list, userRole) ==
  \A n \in 1..Len(list) : hasPermission(userRole, list[n])

HoldsAny(list, userRole) ==
  \E n \in 1..Len(list) : hasPermission(userRole, list[n])

InsufficientPermissionReasons ==
  {"Missing required permissions", "No matching permissions"}

\* A configured list fails: some permission of requiredPermissions is not
\* held, or no permission of anyPermission is held.
PermissionFailureAsStated(i) ==
  \/ /\ config[i].requiredPermissions # Undefined
     /\ ~HoldsAll(config[i].requiredPermissions, req[i].userRole)
  \/ /\ config[i].anyPermission # Undefined
     /\ ~HoldsAny(config[i].anyPermission, req[i].userRole)

\* The same, an empty anyPermission list counting as no requirement.
PermissionFailure(i) ==
  \/ /\ config[i].requiredPermissions # Undefined
     /\ ~HoldsAll(config[i].requiredPermissions, req[i].userRole)
  \/ /\ config[i].anyPermission # Undefined
     /\ Len(config[i].anyPermission) > 0
     /\ ~HoldsAny(config[i].anyPermission, req[i].userRole)

\* C24 as stated: the handler is invoked only if every permission of
\* requiredPermissions and at least one permission of anyPermission resolve
\* true for the caller's role, for each list that is configured; a request
\* that reaches the permission checks and fails either is denied with 403
\* and one audit event with an insufficient-permission reason.
C24_AsStated ==
  \A i \in Slots :
    /\ req[i].handlerCalls > 0 => ~PermissionFailureAsStated(i)
    /\ (Done(i) /\ ReachedPermissionChecks(i)
          /\ PermissionFailureAsStated(i)) =>
         /\ req[i].status = "403" /\ req[i].handlerCalls = 0
         /\ Len(req[i].audits) = 1
         /\ req[i].audits[1] \in InsufficientPermissionReasons

\* C24, amended: as C24, an anyPermission list that is configured and empty
\* imposing no requirement; the reason is the one of the first list that
\* fails, requiredPermissions before anyPermission.
C24_PermissionModes ==
  \A i \in Slots :
    /\ req[i].handlerCalls > 0 => ~PermissionFailure(i)
    /\ (Done(i) /\ ReachedPermissionChecks(i) /\ PermissionFailure(i)) =>
         /\ req[i].status = "403" /\ req[i].handlerCalls = 0
         /\ req[i].audits =
              IF config[i].requiredPermissions # Undefined
                   /\ ~HoldsAll(config[i].requiredPermissions, req[i].userRole)
                THEN <<"Missing required permissions">>
                ELSE <<"No matching permissions">>

\* A client on a route that requires view:projects and manage:roles: it
\* holds the first and not the second, and is denied.
C24_Witness ==
  \E i \in Slots :
    /\ Done(i) /\ req[i].userRole = "client"
    /\ config[i].requiredRole = NoRole
    /\ config[i].requiredPermissions = <<"view:projects", "manage:roles">>
    /\ req[i].status = "403" /\ req[i].handlerCalls = 0
    /\ req[i].audits = <<"Missing required permissions">>

(***************************************************************************)
(* Claims about the place of the rate-limit check, checked under Spec.     *)
(***************************************************************************)
\* The call of isRateLimited made for the invocation in slot i was past the
\* threshold of its window.
OverThreshold(i) ==
  /\ req[i].rlCalled
  /\ lastCall.key = userKey(req[i].userId)
  /\ lastCall.nth > MAX_REQUESTS_PER_MINUTE

\* C25: the rate-limit check comes after the session check and before the
\* role and permission checks: without a session isRateLimited is not
\* called; an authenticated request past the threshold is denied with 429
\* on a route of any configuration and for any role, without a role lookup,
\* and its Retry-After is RATE_LIMIT_WINDOW_MS in seconds.
C25_RateLimitBeforeRoleChecks ==
  \A i \in Slots :
    Done(i) =>
      /\ req[i].session \notin UserIds => ~req[i].rlCalled
      /\ (req[i].session \in UserIds /\ OverThreshold(i)) =>
           /\ req[i].status = "429" /\ req[i].handlerCalls = 0
           /\ req[i].lookup = "" /\ req[i].userRole = NoRole
           /\ req[i].audits = <<"Rate limited">>
           /\ req[i].retryAfter = ToString(RATE_LIMIT_WINDOW_MS \div 1000)

\* An admin past the threshold on a route that requires admin: 429.
C25_Witness ==
  \E i \in Slots :
    /\ Done(i) /\ OverThreshold(i) /\ req[i].status = "429"
    /\ config[i] = withAdminAuth /\ users[req[i].userId].role = "admin"
    /\ req[i].retryAfter = "60"

(***************************************************************************)
(* Claims about errors inside withAuth, checked under Spec.                *)
(***************************************************************************)
\* getSession or the users query threw for the invocation in slot i.
LookupThrew(i) == req[i].session = "throws" \/ req[i].lookup = "throws"

\* C27: when the session lookup or the role lookup throws, withAuth does
\* not throw or reject: it answers 500, does not invoke the handler, and
\* makes one logApiAccess call, with the error reason.
C27_GuardNeverThrows ==
  \A i \in Slots :
    /\ (req[i].pc = "done" /\ LookupThrew(i)) =>
         /\ req[i].status = "500"
         /\ req[i].handlerCalls = 0
         /\ req[i].audits = <<"Error">>
    /\ LookupThrew(i) => req[i].status \in {"none", "500"}

\* The users query threw on a route that requires admin, and the audit
\* insert that followed threw too: the answer is still 500.
C27_Witness ==
  \E i \in Slots :
    /\ Done(i) /\ req[i].lookup = "throws" /\ req[i].sinkThrew
    /\ config[i] = withAdminAuth
    /\ req[i].status = "500" /\ req[i].audits = <<"Error">>

(***************************************************************************)
(* Claims about the pure functions, checked under SpecResolver.            *)
(***************************************************************************)
\* The prefix a rule stands for: its key, without the "/*" of a wildcard key.
RulePrefix(route) ==
  IF endsWith(route, "/*") THEN SubSeq(route, 1, Len(route) - 2) ELSE route

\* The rule the claim selects: the exact key; else, among the rules whose
\* prefix the path starts with, the one with the longest prefix; else the
\* default rule.
PrefixRules(rules, path) ==
  {n \in 1..Len(rules) : startsWith(path, RulePrefix(rules[n].route))}

LongestPrefixRule(rules, path) ==
  IF \E n \in 1..Len(rules) : rules[n].route = path
    THEN rules[CHOOSE n \in 1..Len(rules) : rules[n].route = path].config
  ELSE IF PrefixRules(rules, path) # {}
    THEN rules[CHOOSE n \in PrefixRules(rules, path) :
                 \A m \in PrefixRules(rules, path) :
                   Len(RulePrefix(rules[m].route))
                     <= Len(RulePrefix(rules[n].route))].config
  ELSE DefaultRule

Reversed(list) == [n \in 1..Len(list) |-> list[Len(list) + 1 - n]]

\* C14: findRouteConfig returns the rule with the exact key; else, among the
\* rules whose key is a prefix of the path, the rule with the longest key;
\* else the default rule; and the rule it returns is the same whatever the
\* insertion order of the table.
C14_LongestPrefixWins ==
  calc.fn = "findRouteConfig" =>
    /\ calc.result = LongestPrefixRule(calc.rules, calc.path)
    /\ calc.result = findRouteConfigIn(Reversed(calc.rules), calc.path)

\* The roles reachable from a role through one or more inheritance edges.
Parents(H, S) == UNION {{H[r][n] : n \in 1..Len(H[r])} : r \in S}

RECURSIVE Closure(_, _)
Closure(H, S) ==
  IF Parents(H, S) \subseteq S THEN S ELSE Closure(H, S \cup Parents(H, S))

Ancestors(H, role) == Closure(H, Parents(H, {role}))

EdgeCount(H) ==
  LET RECURSIVE Sum(_)
      Sum(S) == IF S = {} THEN 0
                ELSE LET r == CHOOSE x \in S : TRUE
                     IN Len(H[r]) + Sum(S \ {r})
  IN Sum(DOMAIN H)

Elements(list) == {list[n] : n \in 1..Len(list)}

\* C19: on every role graph, a cyclic one included, getInheritedRoles ends
\* with a list no longer than the number of edges of the graph, and the
\* roles in the list are exactly the roles reachable from the role through
\* inheritance edges.
C19_InheritedRolesAreTheAncestors ==
  calc.fn = "getInheritedRoles" =>
    /\ Len(calc.result) <= EdgeCount(calc.H)
    /\ Elements(calc.result) = Ancestors(calc.H, calc.role)

\* A cycle of two roles and a third that hangs off it: the traversal from a
\* role of the cycle ends and returns all three roles, the role itself
\* included.
C19_Witness ==
  /\ calc.fn = "getInheritedRoles" /\ calc.role = "admin"
  /\ calc.H["admin"] = <<"director">>
  /\ calc.H["director"] = <<"admin", "team">>
  /\ Elements(calc.result) = {"admin", "director", "team"}

\* C20: getAllPermissions(R) contains every direct permission of R, holds
\* exactly the direct permissions of R and of the roles getInheritedRoles(R)
\* lists, each once; and hasPermission(R, p) is true exactly for the
\* permissions p that getAllPermissions(R) holds.
C20_AllPermissionsIsTheUnion ==
  calc.fn = "getAllPermissions" =>
    /\ Cardinality(Elements(calc.result)) = Len(calc.result)
    /\ calc.role # NoRole =>
         /\ Elements(ROLE_PERMISSIONS[calc.role]) \subseteq Elements(calc.result)
         /\ Elements(calc.result) =
              UNION {Elements(ROLE_PERMISSIONS[r]) :
                       r \in {calc.role} \cup Ancestors(calc.H, calc.role)}
    /\ calc.H = ROLE_HIERARCHY =>
         \A perm \in Permissions :
           hasPermission(calc.role, perm) <=> perm \in Elements(calc.result)

\* team, whose two parents share permissions with it and with each other:
\* all nine permissions, each once.
C20_Witness ==
  /\ calc.fn = "getAllPermissions" /\ calc.H = ROLE_HIERARCHY
  /\ calc.role = "team"
  /\ Len(calc.result) = 9 /\ Elements(calc.result) = Permissions

\* C21: the list getInheritedRoles returns holds each role at most once,
\* with the hierarchy of the source and with every role graph.
C21_InheritedRolesHasNoDuplicates ==
  calc.fn = "getInheritedRoles" =>
    Cardinality(Elements(calc.result)) = Len(calc.result)


\* C22: for roles a and b, hasRole(a, b) is true exactly when b is a or b
\* is reachable from a through inheritance edges; hasRole(undefined, b) is
\* false for every b.
C22_HasRoleIffAncestorOrSelf ==
  calc.fn = "hasRole" =>
    IF calc.userRole = NoRole
      THEN calc.result = FALSE
      ELSE calc.result <=>
             (calc.requiredRole = calc.userRole
                \/ calc.requiredRole \in Ancestors(calc.H, calc.userRole))

\* hasRole('team', 'admin') with the hierarchy of the source: admin is
\* reached from team, directly and through director.
C22_Witness ==
  /\ calc.fn = "hasRole" /\ calc.H = ROLE_HIERARCHY
  /\ calc.userRole = "team" /\ calc.requiredRole = "admin"
  /\ calc.result = TRUE

\* C23: inheritance is transitive and monotone: when hasRole(a, b) is true,
\* hasRole(a, c) is true for every c with hasRole(b, c), and hasPermission(a,
\* p) is true for every p with hasPermission(b, p).
C23_InheritanceTransitiveAndMonotone ==
  (calc.fn = "hasRole" /\ calc.result) =>
    /\ \A c \in DOMAIN calc.H :
         hasRoleIn(calc.H, calc.requiredRole, c) =>
           hasRoleIn(calc.H, calc.userRole, c)
    /\ \A p \in Permissions :
         hasPermissionIn(calc.H, calc.requiredRole, p) =>
           hasPermissionIn(calc.H, calc.userRole, p)

\* A chain team -> director -> admin with no edge from team to admin:
\* hasRole(team, director) is true, and so is hasRole(team, admin).
C23_Witness ==
  /\ calc.fn = "hasRole" /\ calc.result
  /\ calc.H["team"] = <<"director">> /\ calc.H["director"] = <<"admin">>
  /\ calc.H["admin"] = << >>
  /\ calc.userRole = "team" /\ calc.requiredRole = "director"
  /\ hasRoleIn(calc.H, "director", "admin")
  /\ hasRoleIn(calc.H, "team", "admin")
  /\ hasPermissionIn(calc.H, "team", "manage:roles")

\* C29: DirectorOnly renders its children for a user whose role is director
\* or admin, and the fallback for client and builder.
C29_DirectorOnlyForDirectorsAndAbove ==
  (calc.fn = "RoleGuard" /\ calc.requiredRole = "director") =>
    /\ calc.userRole \in {"director", "admin"} => calc.result = "children"
    /\ calc.userRole \in {"client", "builder"} => calc.result = "fallback"

\* C31: for every caller role, the page middleware lets the caller through
\* to /admin exactly when the role check of withAdminAuth passes, and to
\* /director exactly when the role check of withDirectorAuth passes.
C31_MiddlewareAndGuardAgree ==
  calc.fn = "roleGates" =>
    (calc.middleware = "next" <=> calc.withAuth = "success")

(***************************************************************************)
(* Claims about the two permission checks, checked under SpecPermissions.  *)
(***************************************************************************)
\* C32: for every role and permission, has_permission over the seeded rows
\* is true exactly when hasPermission is true, and every permission the
\* user-management page lists for the role is granted by both.
C32_DatabaseAndApplicationAgree ==
  calc.fn = "has_permission" =>
    /\ calc.sql <=> calc.app
    /\ calc.page => (calc.sql /\ calc.app)

(***************************************************************************)
(* Claims about deactivated accounts, checked under SpecActive.            *)
(***************************************************************************)
\* The identity of the request was deactivated by a successful
\* toggleUserActive(u, false) and no toggleUserActive(u, true) has
\* succeeded since.
GuardedWhileDeactivated(i) ==
  Done(i) /\ req[i].userId \in lastToggle.deactivated

\* The middleware answered a request of a deactivated identity to a path
\* that is neither public nor outside the middleware's matcher.
NavigatedWhileDeactivated ==
  /\ Answered
  /\ page.request.session \in lastToggle.deactivated
  /\ ~OnPublicRoute
  /\ ~(page.mw = "docs" /\ isExcluded(page.path))

\* C33: between a successful toggleUserActive(u, false) and the next
\* successful toggleUserActive(u, true), every request of u to a non-public
\* route is denied: withAuth does not call the handler and the middleware
\* does not let the request proceed.
C33_DeactivationIsEnforced ==
  /\ \A i \in Slots :
       GuardedWhileDeactivated(i) =>
         req[i].handlerCalls = 0 /\ req[i].status \in DenyStatuses
  /\ NavigatedWhileDeactivated => page.verdict # "next"

(***************************************************************************)
(* Claims about requests after a role update, checked under                *)
(* SpecRoleChange.                                                         *)
(***************************************************************************)
\* The invocation in slot i began after the latest updateUserRole call, that
\* call returned success and its target is the identity of the invocation,
\* whose users query returned the row.
RequestAfterRoleUpdate(i) ==
  /\ Done(i)
  /\ lastUpdate.result = "success"
  /\ lastUpdate.target = req[i].userId
  /\ req[i].lookup = "ok"

\* C36: a withAuth invocation that starts after a successful
\* updateUserRole(u, r) checks u against r: the role it reads is r, and the
\* handler is called only if r satisfies the requirements of the route.
C36_RoleChangeOnNextRequest ==
  \A i \in Slots :
    RequestAfterRoleUpdate(i) =>
      /\ req[i].userRole = lastUpdate.role
      /\ req[i].handlerCalls > 0 =>
           roleChecks(config[i], lastUpdate.role) = "success"

(***************************************************************************)
(* Claims about the middleware's own hasRole, checked under                *)
(* SpecMiddlewareRoles.                                                    *)
(***************************************************************************)
\* C38: the middleware's hasRole returns an answer for every pair of roles
\* of every role graph, cyclic ones included, and for the hierarchy it is
\* configured with the answer is the one of the resolver's hasRole.
C38_MiddlewareHasRoleTerminatesAndAgrees ==
  calc.fn = "middlewareHasRole" =>
    /\ calc.result \in {"true", "false"}
    /\ calc.H = roleHierarchy => (calc.result = "true" <=> calc.resolver)

(***************************************************************************)
(* Claims about the lockout state, checked under SpecLogin.                *)
(***************************************************************************)
\* C17: from an Active identity with counter 0, after LOCK_THRESHOLD
\* consecutive failure reports the identity is Locked: its counter has
\* reached the threshold and a lock expiry in the future has been set.
C17_LockedAfterThresholdFailures ==
  (login.op = "failure" /\ login.streak = LOCK_THRESHOLD) =>
    /\ login.row.failed_login_attempts = LOCK_THRESHOLD
    /\ login.row.locked_until # NULL
    /\ login.row.locked_until[1] > now
    /\ ~Active(login.row, now)

\* The third failure in a row of an identity that had logged in at time 0,
\* reported after time has passed.
C17_Witness ==
  /\ login.op = "failure" /\ login.streak = LOCK_THRESHOLD
  /\ login.row.last_login = <<0>> /\ now > 0
  /\ login.row.locked_until = <<now + LOCK_DURATION>>

\* C18: whatever the failed-attempt count, the lock expiry and the earlier
\* last_login (none included), the update that records a successful login
\* leaves failed_login_attempts at 0 and locked_until null.
C18_SuccessfulLoginResets ==
  login.op = "login" =>
    /\ login.row.failed_login_attempts = 0
    /\ login.row.locked_until = NULL

====
